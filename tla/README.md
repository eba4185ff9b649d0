# Verification of the LPG agency's order-to-delivery core

TLA+ models of the core logic of an agency's backend (`src/backend/src/lpg`) and
of the drivers' app: how an order of gas cylinders goes from booking to the
customer's door, how stock is counted, how the delivery is billed and paid, what
the customer then holds and owes, what calls that run at the same time can do to
each other, and what reaches the server from a phone without a network.
TLC checks the models on small instances; TLAPS proves every safety property that
holds for every size. Paths below are relative to `src/backend/src/lpg`, unless they start
with `docs/`, `mobile/`, `backend/` or `frontend/`.

| Module | What it is |
|---|---|
| `OrderLifecycle` | abstract specification: what an order promises |
| `Fulfilment` | orders, trips, vans, stock; one action per use case |
| `FulfilmentProperties` | what they promise each other, and what the documents say |
| `ConcurrentCalls` | the use cases that open trips and book, query by query |
| `StockLedger` | every movement and count of stock, as calls that overlap |
| `CustomerAccount` | the cylinder ledger, the invoice handler after it, and the two limits that look at them |
| `Billing` | one order's invoice and everybody who pays it |
| `Idempotency` | the calls that share one `Idempotency-Key` |
| `Outbox` | abstract specification: what a queue on a phone promises |
| `PhoneQueue` | the drivers' app's queue, its sending loop and the server's answers |
| `MCFulfilment`, `MCStockLedger`, `MCCustomerAccount`, `MCPhoneQueue` | small instances: constants, symmetry |
| `FulfilmentProofs`, `ConcurrentProofs`, `StockLedgerProofs`, `CustomerAccountProofs`, `BillingProofs`, `IdempotencyProofs`, `PhoneQueueProofs` | theorems about the module they are named after |
| `SumTheorems` | lemmas about sums over finite sets, for the proofs about stock, orders and ledgers |

## The system

A FastAPI backend over PostgreSQL and Redis, an Angular dashboard and three
Flutter apps. The backend is layered: routers (`api`) call one use case
(`application`), which loads aggregates (`domain`) through repositories
(`infrastructure/persistence`), changes them in memory, saves each of them and
commits once. Domain events are dispatched synchronously after the commit.

| Component | State it keeps | Operations | Makes it correct |
|---|---|---|---|
| Orders | `order.status`, lines (ordered, pending, delivered, empties), `route_stop_id`, `total_amount`, cancellation record, proof of delivery | create, amend, confirm, assign, ready, dispatch, depart, deliver, fail, reschedule, cancel, close | follows its lifecycle; leaves a van only by delivery, failure or a Manager's decision; a delivery is final and proven |
| Routes | status, crew, stops, load manifest | plan, load, top up, confirm load, load-and-dispatch, start, cancel, complete, reconcile | stops agree with orders; complete exactly when all stops are; one open trip per crew |
| Stock | warehouse and van balances, reservations, counts | load, reserve, release, deliver, collect, count, decide | cylinders are neither made up nor lost |
| Order intake | reads stock and open demand | check what may be sold | what is sold is there |
| Idempotency | one Redis record per key | claim, run, store, replay, expire | one run at a time, one answer per key |
| Transactions | rows, advisory locks | read, lock, write back, commit | what a commit overwrites was not somebody else's |
| Stock ledger and counts | append-only movements, counts and their decisions | receive, return, load, adjust, count, approve, reject | the balance is what the movements add up to; a count is booked once |
| Events: ledger, invoices, notifications | none: in memory until dispatched | handlers of one event, one after the other | each delivery once |
| Cylinder ledger | a customer's balances and their rows | project a delivery, correct | the balance is the sum of its rows |
| Booking limits | none: read ledger, open orders, invoices | holding cap, credit limit | a customer never gets past them unseen |
| Accounting | invoices, payments, credit notes, payment links, handovers | generate, issue, pay, link, apply, refund, hand over | never overpaid; what was paid arrives and is applied once |
| Delivery OTP | hash and attempts in Redis | issue, verify | single use |
| Identity, licences | tokens, linked phones | rotate, revoke, approve | one session per rotation, device cap |
| Driver outbox | queued operations on the phone | enqueue, send, retry, drop | every write reaches the server once, as its owner, or is reported |
| The rest | records and settings | create, update, read | single aggregates |

How they interact. Orders and routes are two aggregates joined by
`order.route_stop_id`; each of some fifteen use cases keeps both in step by hand.
Reserving an order's cylinders debits the van's free balance, and what is left
of the order is `quantity_pending` (a backorder), so three aggregates share the
truth about one cylinder. A delivery publishes `CylinderDelivered`, which the
ledger and the invoicing subscribe to. Routers wrap creating, departing,
delivering, failing and rescheduling an order, a driver's confirmation of a load
and the cash handover in the idempotency service, which is what the driver app's
outbox retries against. The payment gateway calls back with webhooks, and may do so at any time and again.

What is hard here:

- *Order of calls.* Sixteen use cases move one status, and every one may be called
  through the API in any state; the screens offer fewer.
- *Two aggregates by hand.* An order and its stop, an order and its reservation.
- *Interleaving.* Transactions run at READ COMMITTED, no model has a
  `version_id_col`, and `save()` writes every column back. Advisory locks and
  one unique index are all that holds calls apart.
- *Failure after the commit.* Event handlers run outside the transaction and may
  raise; a worker may die; a claim in Redis expires, and so does an answer.
- *Staleness.* A confirmation of a load, a count of a van, a sum of open demand,
  a customer's balance are all used later than they were taken.
- *A phone without a network.* Answers get lost after the work was done, the app
  is killed while sending, people share a phone, the office acts meanwhile.

`PROJECT.json` lists each hazard at its line, with the properties that cover it.

## Modules and how they correspond to the code

### OrderLifecycle

The lifecycle table of `domain/order/order.py:242-262` and the rule D-19: an
order that has left with a van is cancelled only by deciding a pending request.
Two variables, `status` and `request` (orders with an undecided cancellation
record). `Fulfilment` implements it: it has both variables under the same names,
so the refinement mapping is the identity (`LC == INSTANCE OrderLifecycle`), and
`FollowsLifecycle == LC!Spec` is a property of the run `api` and a theorem.
`DispatchTogether` is there because load-and-dispatch moves several orders
through several states in one transaction.

### Fulfilment

One action is one use case, with everything it calls: it reads, changes, saves
and commits in one transaction. Where the code raises, no step is taken. Two
overlapping transactions are the subject of `ConcurrentCalls`.

| Variable | Code |
|---|---|
| `status`, `request` | `Order.status`, a pending `cancellation_record` |
| `ordered`, `pending`, `delivered`, `collected` | quantities of `OrderLine`, by cylinder type |
| `priced` | `Order.total_amount is not None` |
| `tripOf` | `Order.route_stop_id`, as the route that owns the stop |
| `code` | is a delivery code live in Redis (it may expire: `LoseCode`) |
| `pod` | the orders with a `proof_of_delivery` row |
| `routeStatus`, `driverOf`, `vehicleOf`, `stops` | `Route` and its `RouteStop`s |
| `manifest`, `loadConfirmed` | `Route.loaded_lines`, `load_confirmed_at` |
| `warehouse`, `van`, `vanEmpty` | balances of `InventoryLocation` |
| `count` | status of the vehicle's latest `reconciliation_record` |

Three points that are easy to miss in the code and kept in the model: assigning
reserves what the van has and leaves the rest pending (`VehicleCapacityChecker`);
the last stop resolved, by whichever call, completes the route (`Settled`); a
reschedule resets the stop whatever state the route is in and reopens it only
from `completed`.

Abstracted: money, addresses, people, dates and texts. A refusal for a price, a
credit limit or a blocked customer is a step not taken. Orders are for one day,
so a crew has at most one waiting trip to reuse. A count finds what the balances
say. A delivery report (`Reports`) gives for each type it names the list of its
lines, of which there may be several: each gives back what it left of the
reservation (`Shortfall`) and brings its empties (`Back`), and the order's own line
keeps the last (`LastLine`). `CompleteReports` restricts delivery reports to those
that name every line once, as the driver app sends them; `ScreensOnly` restricts calls to states in which a screen
offers the button (`frontend/.../feature-dispatch.ts:111-114`,
`order-detail.ts:660-669`).

### ConcurrentCalls

The same use cases, opened up: book, confirm, assign (to a waiting trip or a new
one), plan, cancel an order, close (cancel) a trip. Each is a sequence of steps,
one per query, with the aggregates it has read in `asOrder`, `asRoute` and
`figures`, and a final step that writes them back and commits. `SavedStops` is
what `save()` does to the stop list of a trip: the stops of the copy in memory,
over whatever is in the table. `IndexAllows` is the partial unique index
`uq_route_stop_order_active`. Locks (`branchLock`, `crewLock`) go with the
transaction, whether it commits or is refused.

That the session really reloads rows on save (so that writes overwrite instead
of failing or merging) follows from its settings: no autoflush, no version
column, a weak identity map and `expire_on_commit=False`. Row locks taken by the
final writes are inside one step and not modelled apart. An order asks for one
cylinder and no trip leaves.

### StockLedger

`application/inventory/use_cases.py`: goods receipt, return to the oil company,
load transfer, delivery, collection, change of status, adjustment, and counts with
their approval or rejection. A call is two steps, the reads and the commit, and
calls overlap; what it will write is in `call[c].writes` as absolute numbers,
next to its ledger rows, exactly as `_upsert_balance` writes them. `net` is what
the rows of a cell add up to (`Signed` is `signed_balance_changes`). The stock
register is two queries: `ReadBalances` remembers the balances of a location in
`register`, and `Opening` is what it shows if it reads the movements now
(`ReadMovements`). A count remembers what was expected
and found; its decision takes the row lock of `get_for_decision` (`Locked`). `torn`
remembers the cells that two calls changed at once, where the code is known to
lose one change, `crossed` the statuses a commit changed between the register's
queries; `moved` and `clean` of a count are history for its property.
Reserving for an order and handing over at the door are in it because they change
the same cells; load-and-dispatch is its two calls one after the other.

### CustomerAccount

One customer. A booking, an amendment or a confirmation takes the branch's
booking lock and reads the ledger (`StartCheck`), reads the open orders and the
unpaid invoices (`CheckLimits`), and saves (`SaveOrder`); the lock is `BranchIsFree`.
A delivery checks what goes on account, commits (`SaveDelivery`), and only then
does the dispatcher run the ledger handler (`ReadLedger`, `AddRows`, `Post`: the
ledger in memory, the balance row read again, the commit) and the invoice handler
(`GenerateInvoice`). `Raise` is `NegativeBalanceError`, which ends the dispatch;
`Crash` loses what was not dispatched yet. Staff correct balances
(`AdjustLedgerBalance`) through the same three steps. Before a call reads the
balance row again it has written the ledger row, whose lock it then keeps until it
commits (`LedgerIsFree`).

| Variable | Code |
|---|---|
| `order` | status, type and quantities of a one-line order; `owed`: its unpaid part; `billed`: has an invoice |
| `ledger` | a `cylinder_ledger` row with its `cylinder_balance` rows, and `net`, the sum of its `ledger_transaction` rows |
| `call` | what a call has read and is about to write |
| `posted`, `lost` | history for the properties: deliveries written, deliveries cut short |

`blind` marks a call whose checks did not see every delivery: one was on its way
to the ledger (or to its invoice), or had been lost on it.

### Billing

One order's payment links (`link`, and `gateway` for what the gateway thinks of
them), the delivery with what the driver collects, the invoice made by the handler
or issued by the office, and the office's payments. Calls read rows, some FOR
UPDATE, and write them back when they commit: `Held` and `InvoiceHeld` are those row
locks. Making the invoice is `Generate` (read the advances), `TakeAdvance` for each,
`Issue` (commit). Webhooks and refreshes are one protocol: `HearOf` takes the
link's lock and the gateway's word, and `ApplyToInvoice` or `NoInvoiceYet` follows.
A cylinder costs 1; taxes, refunds and credit notes are left out.

### PhoneQueue and Outbox

`SyncCoordinator` with everything around it that matters to the queue: the
delivery screen that tries the network first and queues what it cannot send
(`deliverInline`, `InlineDropped`), the API client that refreshes an expired
session (`OnExpired`, `OnExpiredResend`, `RefreshUnreachable`), sign-in and sign-out.
A pass (`StartPass`) reads the operations of the signed-in user once, and then
`Send`s them one by one; each kind of answer has its action. The server's half
(`Serve`, `ServeBadly`) handles one request under its key in one step:
`Idempotency` is about the steps of that. A record may expire (`KeyExpires`): a dead
worker's claim after 30 seconds, a stored answer after 72 hours, while the phone keeps
its operations for as long as it takes. The office moves orders on (`OfficeMoves`)
and closes them once delivered (`OfficeCloses`), after which a repeated delivery is no
longer answered from the first (`AlreadyDone`). `late` holds requests nobody waits for any
more that may still arrive. `Outbox` is what the user is promised of each
operation (waiting, sent, a problem, forgotten) and of its effect; `PhoneQueue`
implements it with `Box` (what the status shows) and `Done` (what was applied) as
the refinement mapping (`Promise`).

### Idempotency

The calls that arrive with one key, each with a request fingerprint. `Claim` is
`SET NX`, `Store` overwrites whatever the record is by then and `Release` deletes
it, because the record names no owner. `Faults` says what may go wrong: `crash`
(a worker dies: no `except` clause runs), `handler` (an event handler raises after
the commit, so the claim is released although the operation was applied), `slow`
(an operation outlives the 30 seconds of its claim). The calls come within the 72
hours of a stored answer.

## What is checked

| Run | Instance | Shows |
|---|---|---|
| `api` | 2 orders, 2 trips, 2 drivers, 1 van, 1 type, lines of 1, stock 2; any call at any time, reports that name the type twice | `StockNeverMadeUp`, `StopsAndOrdersAgree`, `DeliveryIsProven`, `CompletedIsResolved`, `OneWaitingTrip`, `DeliveryIsFinal`, `SoldIsThere`, `FollowsLifecycle` (refinement) |
| `loads` | 1 order, 1 trip, 1 van, 2 types, empties, incomplete reports and such as name a type twice, counts decided both ways | `EmptiesAccounted`, `ConfirmationIsCurrent` |
| `screens` | 2 orders, 2 trips, 1 driver, 1 van, lines of up to 2, complete reports, only what screens offer | `StockConserved`, `OnTheWay`, `Priced` |
| `concurrent` | 2 calls, 1 order, 2 trips, 2 drivers, 1 van, every kind of call | `OneActiveStop`, `AssignedHasStop`, `EveryCallEnds`, no deadlock |
| `stock_ledger` | a warehouse, a van, 2 overlapping calls and a register, 4 in all, 2 counts, 3 of the statuses | `TypeOK` (no balance below zero), `RegisterOpensRight`, `BookedOnce`, `CountedThenMoved` |
| `customer` | 2 orders of up to 2 cylinders, 2 types, 2 calls, a correction, a crash, cap 2, credit limit 1 | `LedgerInLockstep`, `OnLedgerOnce`, `BookedWithinCap`, `OnAccountWithinLimit` |
| `billing` | 2 calls, 2 links, up to 2 cylinders, a cancellation fee of 1, a crash | `NeverOverpaid`, `AppliedIsRecorded`, `AdvanceLands`, `PaidArrives` |
| `idempotency` | 4 calls, 2 fingerprints, crashes and failing handlers | `AnswerIsMine`, `AnswersAgree`, `AppliedAgainOnlyIfLost`, `KeyIsNotWedged`, `EveryCallReturns` |
| `phone_queue` | 2 operations, 2 users, 2 retries, 2 faults | `SyncedIsDone`, `AppliedOncePerLoss`, `SyncingIsBeingSent`, `OwnSessionUnlessSwitched`, `ConflictIsNotItself`, `EveryOperationSettles`, `ImplementsOutbox` (refinement) |

What each property says, and of which code, is in the comment before it.

Runs that end in a counterexample, each a disagreement between the code and what
the repository says of it (quoted under `findings` in `PROJECT.json`):

| Run | What happens |
|---|---|
| `redated` | An order re-dated after a failed delivery keeps its failed stop and can never be planned again. |
| `revived_trip` | A trip cancelled while an order was being put on it is planned again, although its crew has another by then. |
| `one_link` | Two taps on "Pay" at the same time make two links that can both be paid. |

Some properties have a premise, because without it TLC finds a counterexample;
each premise is as weak as it could be made: `torn` (two calls changed one cell at
once), `crossed` (a commit between the register's two reads), `NamedTwice` (a delivery
report names a type twice), `blind` (a delivery was not on the ledger or had no invoice yet), `missed` (a
payment was reported while the invoice was being made), `switched` (people changed
during a pass), `interrupted` (the app was killed over the operation), `lost` (the server lost its record, or it
expired), `ClosedOver` (the office closed an order delivered past the queue). What
happens outside them is told under "Seen while modelling".

### Bounds, and why they are enough

Every property relates at most two orders, two trips or two calls, and the
instances have two of each, except where noted. Two trips of one van with two
drivers are what the crew rule is about. Stock 2 with lines of 1 lets both
orders be served; lines of up to 2 (`screens`) bring partial reservations and
backorders. Two cylinder types (`loads`) are needed for reports that leave a
line out; `MaxLines` 2 lets a report name a type twice, which is all that naming it
more often does. `loads` has one trip, because its two properties are about one order on
one. One order in `concurrent` is enough for two calls to collide on it, on
its trip, on the driver or on the van; `revived_trip` has three trips because its
story needs them. Four idempotent
calls cover a runner, a runner after its failure, and two waiters.

In `stock_ledger` four moves let two calls overlap, a count be taken, stock move
and the count be decided (twice, by two calls); quantities 0 and 1 tell finding
nothing from finding one; a register is one of the four. In `customer` a cap of 2 with lines of up to 2 is reached
by one order and exceeded by two, a limit of 1 by one delivery on account; two
ledgers are as many as two calls can make at once (`LedgersAssumption`). In
`billing` two links can both be paid before, during and after the delivery while
the order is amended in between. In `phone_queue` two faults are enough for an
answer lost after an answer lost, or for a kill and a sign-out; with two
operations one can wait for, overtake or be overtaken by the other.

The bounds are `MaxQty`, `WarehouseStock`, `EmptiesBack`, `MaxLines`, `Decisions`, `Calls`,
`Kinds`; `Counts`, `Quantities`, `FirstStock`, `Handled`, `MaxMoves` (StockLedger);
`Quantities`, `Deltas`, `MaxAdjusts`, `MaxCrashes`, `Ledgers` (CustomerAccount);
`MaxLinks`, `Closings`, `MaxCrashes` (Billing); `MaxFaults` (PhoneQueue). Nothing is
bounded by a state constraint.

`SymmetricNames` permutes orders, trips and drivers, which no definition tells
apart (in `MCStockLedger` calls and counts, in `MCCustomerAccount` orders, ledgers
and calls); it is used with invariants, box-action properties and the refinement's
safety part only, never with liveness. `WithoutManifests` leaves `manifest` and
`loadConfirmed` out of the view: they are written and shown, and no guard or
property of those runs reads them. `loads`, whose property does, has no view.

`CHECK_DEADLOCK FALSE` where the system may stop: all orders closed or cancelled
and all trips reconciled (`Fulfilment`), every call answered (`Idempotency`), the
bounds used up (`StockLedger`, `PhoneQueue`), everything delivered and paid
(`CustomerAccount`, `Billing`), a counterexample run. `concurrent` checks for deadlock.

### Fairness

`Fulfilment`, `StockLedger` and `CustomerAccount` have none: nobody has to press a
button, and their properties are safety. `ConcurrentCalls` has weak fairness of each
call's steps, none of a request arriving: the event loop resumes every coroutine whose query has
returned, and PostgreSQL grants a free lock; the steps that wait for a lock are
strongly fair, because advisory locks are granted first come, first served.
`Idempotency` has weak fairness of `Proceed` for each call that has arrived (its
operation ends, a waiter polls until its deadline) and of `ClaimExpires` (Redis
expires keys); none of arriving, none of `Die`.
`PhoneQueue` has weak fairness of the pass (`Phone`: a request is answered or times
out, and the loop goes on) and strong fairness of a pass that starts with nothing
backing off: a timer starts one every 30 seconds and no backoff is longer than ten
minutes. None of users, the office or faults. `Billing` has weak fairness of each
call's steps, and strong fairness of the gateway reporting a payment that is not
recorded yet (`Notify`): it repeats a webhook until it is answered with success, and
it gets through whenever the link's row is free time and again.

## What is proved

All by induction over the steps, for any sets of orders, trips, drivers, vans,
types and calls, and any bounds that satisfy the named assumptions
(`BoundsAssumption`, `NamesAssumption`, `FaultsAssumption`, ...: bounds are
natural numbers, the "nobody" values are not names of anybody). Where something is
counted over orders, vans, cylinder types, ledgers or calls, `FiniteAssumption` says
that there are finitely many, as in any database. Every invariant and every
action property of the passing runs is stated by a theorem.

`SumTheorems`: stock, open demand and a customer's cylinders are sums, which the
community modules define by a fold. What a fold computes is usually shown by
induction with the induced formula as a parameter, which the provers cannot
instantiate. Instead, the set of the subsets for which a fact about sums fails is
shown to have no smallest member (`Smallest`, from the library's `WFMin`). `SumExists`
and the lemmas after it do this once; the others cite what comes out of it: what
a sum becomes when one or several terms change, or when one of two sums takes what
the other loses.

`Fulfilment`:

- `TypeCorrect`: `TypeInv`, which is `TypeOK` (balances never below zero) with two
  facts it needs: a trip that exists has a crew (`Crewed`), and what is pending
  of an order is part of what was ordered (`OwedIsOrdered`). Without the second,
  releasing "ordered minus pending" would not be a count.
- `StopsAndOrdersAgreeAlways`: `AgreeInv`, which adds both directions of the
  agreement between orders and stops. Neither is inductive alone: moving a stop is
  allowed by what its order says, and moving an order by what its stop says.
- `OrdersFollowLifecycle`: the initial states and every step of `Fulfilment` map
  to `OrderLifecycle`; the steps that move stops rely on `AgreeInv`.
- `CompletedIsResolvedAlways`, `OneWaitingTripAlways` from `TypeInv`;
  `DeliveryIsProvenAlways` and `DeliveryIsFinalAlways` from `ProvenInv`, which adds
  that an undelivered order has nothing delivered (`UndeliveredIsBlank`).
- `StockNeverMadeUpAlways`, `StockConservedAlways`, `SoldIsThereAlways`, from `StockInv`,
  which adds `TripsAreReal`: an order has a trip once it has cylinders reserved, and
  none before it is confirmed, and a stop is on a trip that exists.
  `NextStockStep` says of each step how much it moves between the warehouse, the
  vans and the customers (`StockTally`), and that it moves or loses it but never
  makes it, unless the report of a delivery names a type twice (`NamedTwice`). That nothing is lost takes `CompleteReports` and `ScreensOnly` as premises,
  and without either of them TLC finds a counterexample: a report that leaves a line
  out loses its reservation, and a confirmation of a failed order, which only the API
  allows, loses what is aboard (see below).
- `EmptiesAccountedAlways`: the difference of a sum over vans and one over orders,
  because a delivery adds to one term of each, and the same where its report names
  a type once.
- `ConfirmationIsCurrentAlways`, from "a trip that is not loaded is not confirmed".
- `PricedAlways` and `OnTheWayAlways` have the premise `ScreensOnly`: through the API
  neither holds. The second needs `CompletedIsResolved` beside it, since a trip that
  completed over a pending stop would leave its order on the way.

`ConcurrentCalls`:

- `OneActiveStopAlways`, `AssignedHasStopAlways`, `OneBookingAtATimeAlways` from
  `IInv`. Its parts say what a call may rely on in the middle: where it is fits
  what it was asked (`JobFits`), it holds the locks of the step it is at
  (`LocksHeld`, `BranchHeld`), a trip
  that an order or a call names has been opened (`Opened`), and a cancelled stop,
  in its row or in some call's copy, is never that of an order still assigned to
  the trip (`CancelledAgree`). The last is what makes a stale write-back harmless to
  `AssignedHasStop`: what is overwritten was never the stop of an assigned order.
- `OneOpenTripUnlessCancelled`: where no trip is ever cancelled, the crew locks do
  keep every driver and vehicle to one open trip. The premise is necessary, as
  the run `revived_trip` shows; the invariant `CrewInv` says that a call which has
  checked a driver or vehicle under its lock still finds it free.

`StockLedger` (`LedgerInv`, of two halves):

- `TypeCorrect`: no balance and no reservation goes below zero, although a call writes
  absolute numbers it computed from an earlier read.
- `RegisterOpensRightAlways`, from `LedgerAddsUp` (a cell that is not torn is its first
  stock and its movements) and `RegisterIsFresh` (what a register has read is still the
  balance, but for what was `crossed`); the first from `CallInv`. Its heart is `WritesFollowRows`: what a call
  is about to write of a cell is the cell's balance with that call's own ledger
  rows. Another call's commit breaks this, and then both were writing that cell
  (`TwoWritersAreTorn`); this is why `torn` is the exact premise. `RowsAreSound` says
  that a call's rows are all reservations, all corrections or neither, without which
  the rows would not determine what changes aboard.
- `BookedOnceAlways`: a count is in the hands of one call at a time
  (`OneCallPerCount`, the row lock of its decision), and what an approval is to book is
  the variance of that count (`OnCount`).
- `CountedThenMovedAlways`: until a count is decided, what it expected and what has
  moved since make up the balance (`CountHolds`), so that adding the variance gives
  what was counted and what has moved.

`Idempotency`:

- `AnswerIsMineAlways`, under every fault.
- `OneAtATimeUnlessSlow`, `AnswersAgreeUnlessSlow`,
  `AppliedAgainOnlyIfLostUnlessSlow` and `ResultStaysUnlessSlow`, where no
  operation outlives its claim (`HeldInv`: whoever is inside holds the key).
- `AtMostOnceWithoutFaults`: the docstring's "at most once", where nothing fails.

`PhoneQueue` (an inductive invariant `Inv` in six parts):

- `SentIsDone`: whatever the phone shows as synced was carried out; `DoneInv` adds
  that every stored answer and every "ok" under way is to something that was.
- `CarriedOutOnce`: an operation is applied once more only for each answer the server
  lost or let expire. Its part `Tally` shows what does it: for placing an order only
  the record of its key, for everything else the order's own status machine; for a
  delivery that alone, so that it needs no premise.
- `RefusalsComeFromOthers`: an operation is refused only if it was not carried out,
  or the server lost the record of it or let it expire, or it is a delivery made past
  the queue and closed since. `Tally` says more for this than counting takes: every
  move and every delivery that was made has its record or was lost.
- `NothingLeftSyncing` and `SentByItsOwner`, from `PassInv` (a pass has yet to send
  what still waits) and `OwnInv` (all of it belongs to who is signed in, as long as
  nobody else signs in meanwhile).
- `QueueIsAnOutbox`: the queue implements `Outbox` (its safety) by the simulation
  lemma `Simulation`, one case per action; that it settles is left to TLC.

`Billing` (`IInv`):

- `InvoiceNeverOverpaid`. Two kinds of call change an invoice: those that hold its row
  know its true state (`OfficeFits`), and the one that makes it has taken no more
  advances than it costs (`IssueFits`), which works because the row does not exist
  before it commits.
- `LinkAppliedOnce`: who holds a link's row has it as it is (`CopyIsRow`, `HeldByOne`),
  so no link is applied by two calls, and none before there is an invoice
  (`AppliedNeedsInvoice`).
- `AdvancesLand`: an advance that had been reported when the invoice was begun is
  on it, up to its total.

`CustomerAccount` (`IInv`):

- `BalancesInLockstep`: a balance row is the sum of its transactions. `WritesTheSum`
  says so of what a call has in hand to write, and stays true because no other call
  has anything in hand for that ledger (`OneWriter`).
- `DeliveredOnLedgerOnce`: a delivery that is neither on its way to the ledger nor
  lost is on it exactly once; by `OwnOrder` nobody else has the order meanwhile,
  and `Stage` tells how far a call has come with it.
- `BookedWithinCapAlways`, `OnAccountWithinLimitAlways`, from `LimitInv`: what a check has
  read is still what the customer holds (`HeldFits`), what passed the cap would pass it
  again (`CapFits`), and what was let on account is within the limit with all that is
  owed besides (`CreditFits`), each unless the call is `blind`. They survive the other
  calls' steps because the booking lock lets one call check at a time (`OneChecks`)
  and because a delivery or a write to the ledger, which take no such lock, blind the
  call that is checking. A refill is an exchange: of each type the cap counts the
  larger of what is held and what is coming, and an order that is cancelled
  meanwhile only makes that less.

`OneAtATimeUnlessSlow`, `OneBookingAtATimeAlways` and the type invariants of
`Fulfilment`, `Billing`, `CustomerAccount` and `PhoneQueue` are proved, so no run
repeats them.

Model-checked only is liveness, which is beyond the prover under fairness:
`EveryCallEnds`, `KeyIsNotWedged`, `EveryCallReturns`, `EveryOperationSettles` and
`PaidArrives`, and the liveness of the refinement `ImplementsOutbox`.

No module uses `ENABLED` or a RECURSIVE operator in what is proved.

## Seen while modelling, without a run

Orders, trips and stock:

- `docs/data/08-state-machines.md:49` lets a failed delivery be cancelled; its stop
  cannot be (`domain/delivery/route.py:136`), so the use case
  (`application/order/use_cases.py:1437`) refuses.
- A loaded trip may be cancelled with orders aboard that can then depart but neither
  be delivered nor fail (`application/delivery/use_cases.py:552`).
- A reschedule reopens a completed trip without asking whether its crew has
  started another (`domain/delivery/route.py:542`), so DO-23 can be broken; on a
  reconciled one it resets the stop and leaves the trip closed.
- Open demand leaves failed deliveries out, and is read apart from the stock
  (`infrastructure/persistence/repositories/order.py:594`, `615`), so that an
  assignment between the two queries lets a booking oversell.
- A delivery report that leaves a line out never releases its reservation
  (`application/order/use_cases.py:961`); `StockConserved` therefore assumes
  complete reports.
- A report that names a cylinder type twice is accepted (`api/v1/schemas/order.py:252`
  asks only for one line or more). Each line gives back its part of the
  reservation and books its empties on the van
  (`application/order/use_cases.py:961-979`), while the order's line keeps the last
  figures (`domain/order/order.py:434`): the van then shows cylinders it does not have.
  `StockNeverMadeUp` and `EmptiesAccounted` say that nothing else does this
  (`NamedTwice`). The driver app sends each type once.
- The manifest of a trip omits cylinders reserved for another open trip of the
  same van (`application/delivery/use_cases.py:587`).
- A trip is reconciled by the latest approved count of its van, even one made
  before the trip, and of one cylinder type (`application/delivery/use_cases.py:1098`).
- The API accepts a confirmation of a failed order and a re-dating of a booked
  one (`domain/order/order.py:732`, `891`), which the screens do not offer; the
  second leaves an order without a price.
- A loaded trip with no order on it can be started and never completes
  (`domain/delivery/route.py:620`).
- A pending cancellation request survives the delivery it was meant to stop.
- Van balances and order rows are written back whole, so two assignments at once
  can lose one's reservation and a stale confirmation takes an order off its
  trip; `docs/reviews/concurrency-capacity-review-2026-11-01.md:41-51` knows it.

Stock ledger and counts:

- Two pending counts of one cell that found the same shortage are both booked.
- A count of a van with orders reserved aboard is compared with its free balance,
  so approving it makes a surplus (the property's premise `clean`).
- Calls that overlap on one cell lose an update, and the register's opening balance
  is off from then on (`torn`).
- The register reads the balances and the movements in two statements
  (`application/inventory/use_cases.py:765`, `770`) at READ COMMITTED: a movement that
  commits in between is in the second and not in the first, and every line of that
  cell is off by it (`crossed`), although line 745 says that "the register always
  agrees with the live balance".
- "empty→filled stays GRN-only" (`domain/inventory/inventory_location.py:116-127`)
  holds of one change of status, not of several in a row.

The customer's account:

- `cylinder_ledger` has no unique constraint on the customer: two first deliveries at
  once make two ledgers, and later reads take either.
- Two returns at once can take a balance below zero, which
  `domain/cylinder_ledger/cylinder_ledger.py:91` excludes: the check uses an
  earlier read than the write.
- A delivery whose handler raises (more empties than the balance) never reaches the
  ledger, and its invoice goes on hold. The debt is then outside the credit check,
  which compares invoices only (`infrastructure/persistence/repositories/accounting.py:331-345`),
  and the next delivery on account passes it, although `application/order/use_cases.py:1068`
  says it is "only allowed up to the agency's credit limit" (`blind`).
- The cap reads the ledger first and open orders after: a delivery in between is
  counted in neither. Bookings of one customer at two branches take different locks.
- WhatsApp books without the cap (`application/whatsapp/tools.py:381`); it is
  checked when the order is confirmed.

Billing:

- Nothing closes a link at the gateway: one made before the driver collected cash, or
  before the order was amended, can still be paid. What is then too much is logged.
- A payment settled while the invoice is being made stays unapplied until a webhook
  or a refresh comes again (`missed`). Cancellation charges take no advances.
- Refunds are each compared with what was paid, not with each other
  (`application/accounting/use_cases.py:665-708`), and who asks for one may approve it.
- A crash between the gateway's answer and the commit leaves a link that can be paid
  and has no row.
- Cash is handed over once per trip; what a reopened trip collects afterwards is in
  no list of cash in hand.

The phone:

- A pass reads its owner once (`mobile/packages/sync_engine/lib/src/sync_coordinator.dart:129`)
  and goes on under whatever session is current, although line 32 says "never sent
  under another person's session" (`switched`).
- An operation in backoff is overtaken by later ones of the same order.
- The app killed while sending leaves an operation `syncing` for ever (`interrupted`).
- An expired session marks operations `failed`. A delivery that is queued while
  its user signs out has no owner, and the next user of the phone adopts it.
- An operation sent again more than 72 hours after it was first answered is no longer
  known: an order is placed a second time, and anything else refused because of its
  own first attempt (`lost`), where `infrastructure/idempotency/service.py:38-40` says
  that such a replay "must still return the stored result rather than re-applying".
- A delivery made past the queue whose answer was lost, and which the office has closed
  since, is refused when the queue sends it under its own key (`ClosedOver`), although
  `application/order/use_cases.py:917-920` means a repeat to be answered with what was
  recorded: it asks for the status `delivered`, not for the proof of delivery.

Idempotency:

- A claim lives 30 seconds (`infrastructure/idempotency/service.py:37`) and a
  worker 120 (`backend/gunicorn.conf.py:36`): with `"slow" \in Faults`, which TLC
  can be given, `OneAtATime` fails.

## Not modelled

Everything listed `not_modelled` in `PROJECT.json`, with its reason. Of the
repository's code most is single-aggregate record keeping, queries for screens and
reports, the screens themselves, seed data, or calls to external services: one
transaction that reads and writes one record, with nothing to interleave with but
another edit of it. A model of those would restate them. For the same reason the map
covers a small share of all lines: it names the domain code, use cases and
repositories of the protocols above, and not the routers, schemas and mappers around
them.

What has a protocol and is not modelled: refunds and credit notes, cash handover,
refresh tokens and one-time passwords, linked devices, auto-assignment, the
WhatsApp dialogue. Of what is modelled: money is counted in cylinders, taxes are left
out, orders have one line (`CustomerAccount`, `Billing`, `ConcurrentCalls`), and the
overlapping of deliveries with other calls is seen on the stock (`StockLedger`) and
on the account (`CustomerAccount`), not on the order's own row.

## Plan

Written so far, in this order: `OrderLifecycle` and `Fulfilment` (the heart of the
system), `Idempotency`, `ConcurrentCalls`, `PhoneQueue` over `Outbox`, `Billing`,
`StockLedger`, `CustomerAccount`, each with its theorems. Left:

1. `ConcurrentCalls` extended with depart, deliver, fail and reschedule, and a stale
   confirmation that writes an order back over its assignment; `AssignedHasStop`
   then has a premise to find, and its invariant has to say what a stale copy holds.
2. `Refunds`: credit notes and refunds of one invoice, requested and decided by two
   people; the handover of a trip that is reopened.
3. `RefreshTokens` and `OtpStore`: two tabs that rotate one token, two guesses at one
   code.
