# TLA+ verification of special-affair-api

special-affair-api is the commerce back end of a shop: a FastAPI application and a
polling worker over one PostgreSQL database. All shared state is in the database; every
request and every worker step is a sequence of transactions at READ COMMITTED that
coordinate through row locks, advisory locks and the outbox. This directory models that
coordination in TLA+, checks it with TLC and proves all of its safety with TLAPS.

Run inside this directory: `tlc -config <run>.cfg <MC module>` for a run of
`PROJECT.json`, `tlapm <module>.tla` for the proofs of each `...Proofs` module and of
`SumTheorems`.

## 1. The system

| Component (under `src/app/`) | State | Operations | Interacts with | What is hard | What makes it correct |
|---|---|---|---|---|---|
| Checkout (`modules/checkout`) | checkouts, idempotency_keys | submit (two phases around the provider), payment-intent, update_address | cart, inventory, payments, outbox | concurrent and repeated calls, crash between the phases | one order per cart and key; replays lead to the same order |
| Payments and retry (`modules/payments`, `storefront.py`) | payment_attempts, payment_transactions, webhook_inbox | provider events, two retry routes | orders, holds, checkout, outbox | events late, early, repeated; retries racing them; reads before locks | charged once; money and stock agree; a live attempt can be paid |
| Orders (`modules/orders`, `core/domain.py`) | orders, items, history | transitions by five handlers | all | direct assignments beside `transition()` | the status moves along ORDER_TRANSITIONS |
| Inventory (`modules/inventory`) | inventory_items, reservations, movements | reserve, commit, release, sweep, adjust | checkout, orders, fulfillment | competition for the last units; row-lock order | never oversold; the reserved column is what orders hold |
| Fulfillment (`modules/fulfillment`) | fulfillments, shipments | allocate, cancel, dispatch, delivered | inventory, orders | partial dispatches split holds, shipments arrive in any order | a paid order can be shipped; delivered means all arrived |
| Outbox and worker (`workers`, `core/domain.emit`, `modules/audit`) | outbox_events | emit, claim, handle, complete, replay | everything that emits, refunds | leases, stalls, crashes, time-outs, poison events | effects in order, settled events stay settled, nothing retried for ever |
| Returns and refunds (`modules/returns`, `approvals`) | returns, refunds, approvals | request and advance a return, request, decide and settle a refund | attempts, outbox, provider | pending refunds, second person, settlement twice | refunds within the capture and the goods |
| Cart (`modules/cart`) | carts, cart_items | add, update, remove, load, quote, coupon | checkout, merge | edits in two tabs during a checkout | the order is the cart as converted |
| Customers, privacy (`modules/customers`) | customers, saved carts, addresses, consents | sign-in, profile, merge_cart, saved_cart, erasure | carts, orders, support, wishlists | merge against checkout, erasure against use | one open cart; nothing personal left |
| Wishlist (`modules/wishlist.py`) | wishlists | create, add, remove, merge | customers | two lists merged at once, limit of 100 | no item lost, the limit holds |
| Pricing, promotions (`modules/pricing`, `promotions`) | price books, promotions | effective price, discount, included tax | cart, checkout | rounding, half-open validity, prices that change between two reads | totals add up and are what was shown |
| Catalog, media, content (`modules/catalog`, `content`) | products, variants, media, pages | versioned publication, prices, promotions, coupons, queries | cart, wishlist | changes during a checkout | an order's prices and offers were in force |
| Support (`modules/support`) | cases, messages | create, reply | customers | messages against erasure | bodies are gone after an erasure |
| Retention (`workers/retention.py`) | payloads of inbox and cases | prune | inbox | must keep the deduplication row | - |
| Abuse guard, security (`core`) | windows per client, key cache | count, verify | every request | bounded map, key rotation | the limit holds, no permanent lock-out |
| Copilot (`ai`), configuration, logging, health, migrations, scripts | - | reads, settings, one-off commands | - | outside the model | - |

### How the components meet

`submit_checkout` locks the idempotency key (advisory lock) and the cart, reserves stock,
creates order, checkout, holds and the first attempt and commits (phase A). Without any
lock it calls the provider, then stores the reference and the response (phase B). Provider
events lock the order, then the attempt, and move order, checkout, holds and ledger
together. The worker sweeps overdue orders with SKIP LOCKED and works on the outbox, which
every handler fills in its own transaction.

One fact about the code runs through the models: a SQLAlchemy session does not refresh an
object it already holds when the row is selected FOR UPDATE again, unless it is asked to
(`refresh`, `populate_existing`). A transaction can therefore hold the lock and act on a
value it read before. The models keep such reads as locals (`seenOrder`, `seenCheckout`).

Every route behind a sign-in takes `lock_key("customer", subject)` in `customer_for` and
keeps it to its commit, so the requests of one customer come one after the other, except
that merges wait for rows of carts and wishlists that guests and checkouts use. An erasure
locks the customer's row and not that key.

Prices, promotions and coupons are read without a lock, one statement at a time, by the
quote, the coupon and the checkout; at READ COMMITTED each statement sees what was
committed before it.

## 2. Modules

| Module | Models | One action is |
|---|---|---|
| `Payments` | the payment machinery around an order: checkout phases, retries, events, sweeper, allocation, cancellation | one committed transaction, or one unlocked read whose value is used later |
| `OrderLifecycle` | what an order promises: stock and money, without attempts and requests | abstract; implemented by `Payments` |
| `PaymentsProofs` | the inductive invariant of `Payments` and its theorems; the refinement of `OrderLifecycle` | - |
| `Checkout` | `submit_checkout` in detail: key lock, cart lock, both phases, crashes, cart edits | one stretch between two awaits on a lock or the provider |
| `CheckoutProofs` | the inductive invariant of `Checkout` and its theorems | - |
| `Outbox` | emit, claim, handlers, completion, leases, replay | one transaction of a worker |
| `OutboxProofs` | the inductive invariants of `Outbox` and its theorems | - |
| `Inventory` | stock rows, holds, dispatch, delivery | one transaction |
| `StockPool` | one pool of units per variant | abstract; implemented by `Inventory` |
| `InventoryProofs` | the inductive invariant of `Inventory`, its theorems and the refinement of `StockPool`; the invariant of `StockLocks` and its circles | - |
| `WaitCircles` | who waits for whom: the state of `StockLocks` and its circles | - |
| `StockLocks` | the row locks of the transactions that `Inventory` takes as one step; requests may be refused midway | one lock |
| `Refunds` | returns, refunds, approvals, settlement | one transaction; the settlement is two and the provider's call |
| `RefundsProofs` | the inductive invariant of `Refunds` without its sums and what follows from it; the sums | - |
| `SumTheorems` | sums over finite sets: empty, one more, one less, monotone, pointwise; the first element of an order | lemmas for the proofs |
| `Sessions` | customers' rows, their locks and the requests in flight, shared by the next three | - |
| `Privacy` | sign-in, profile, addresses, consents, support messages, erasure, retention of messages | one stretch of a request between two waits or between a read and the write that relies on it |
| `Wishlists` | lists of guests and accounts and their merge | the same |
| `SavedCarts` | creation and edits of carts, expiry, the saved cart and the merge | the same; a handler of one cart is one step under that cart's lock |
| `Accounts` | the three together, with checkouts and the erasure of all | - |
| `AccountsProofs` | the inductive invariant of `Accounts` and its theorems | - |
| `Pricing` | rounding, tax, discount, choice of a price and of a promotion, as functions | - |
| `Catalog` | product, variants, publication, prices, promotions, coupons, the clock | one staff handler |
| `Quotes` | a bag, its quote, coupon and checkout over `Catalog` | one select of a request, or its end |
| `QuotesProofs` | rounding and choice of prices, the inductive invariant of `Quotes` and its theorems | - |
| `MC...` | instances for TLC: symmetry sets and values of constants | - |

How they fit: `Payments` takes holds as one status per order, `Inventory` counts units and
takes payment as the steps Commit and Expire. `Checkout` refines the two phases that
`Payments` has as CheckoutOnline, CreateSession and AssignReference. `Outbox` has a
refund's effect as one step with a second look; `Refunds` shows what that step does to
attempts and returns. `StockLocks` justifies (and limits) the atomicity of `Inventory`:
rows are locked before they are read, so its steps are serialised; some are failed by
deadlock detection, which leaves no trace and is not a step there. `Accounts` puts
`Privacy`, `Wishlists` and `SavedCarts` on one set of requests and locks (`Sessions`); its
PlaceOrder is `Checkout`'s as far as cart and customer are concerned. `Quotes` puts a
shopper's requests on `Catalog` and takes all else that can fail a checkout as `Fail`.

Names: variables are the tables' columns, actions the handlers or their branches. Each
operator's source lines are in `PROJECT.json`, "map". Operators named `Slip...` are
mistakes the code does not make, each in the place of the operator after it; they show
that a property can fail.

### Abstractions

- Payloads, tokens, names and texts are left out; amounts appear only where a property is
  about them (`Refunds`; an event's amount in `Payments` is exact or not).
- Time: a hold `lapsed`, an event is `due`, a return window is open or closed; each may
  happen at any moment the code allows.
- `Payments`: an order's holds share one status, since the code moves them together and
  `Inventory` splits them only after payment. Shipping is `Inventory`'s.
- `Checkout`: an order is identified by the call that made it; a cart's lines by their
  number.
- `Outbox`: ids are uuid7 and in the order of emission. Transactions that emit for an order
  follow each other under its lock; the two events of a cancellation are flushed apart, the
  first by the select in `release`, the second at the commit. Two ids of one aggregate thus
  lie statements apart, which assumes clocks that agree as closely. `attempts` is counted
  up to its limit.
- `Inventory`: rows of inventory_reservations with one order, stock row and status are
  represented by the sum of their quantities.
- `Refunds`: one line per order, one captured attempt per order (theorem
  `PaymentsChargedOnce`), the idempotency key stands for the refund. Permissions come with
  each token, so what is modelled of them is that requester and decider differ.
- `Accounts`: of a customer's data the kinds that are there, of a cart's lines the
  quantities; stock and price lookups by their outcome (any quantity may be available,
  none also for a piece that is not sold). The limit of a list, 100 in the code, is a
  constant. Versions are counted up to a bound.
- `Quotes`: amounts in minor units and exact; the catalog has one product. The cart stays
  locked during a request, so one shopper's requests do not overlap. Once the order is
  placed the staff stops.
- `StockLocks`: order locks are left out because a transaction waits for one only while it
  has no other lock, and the sweeper skips locked orders.
- External, modelled from its use: the provider (sessions; one refund per key; events of
  any kind at any time), PostgreSQL (row and advisory locks, deadlock victims).

## 3. Runs

Passing runs (sizes are distinct states).

| Run | Question and properties | Bounds, and why they are enough |
|---|---|---|
| `payments_races` | Do requests, events, sweeper and staff keep an order consistent, is every event counted once, does `Payments` implement `OrderLifecycle`, expiry included? `TypeOK`, `MoneyMatchesStock`, `NewestAttemptDecides`, `ChargedOnce`, `InboxTellsTheTruth`, `LifecycleSpec`, `OverdueOrdersExpire` | 25k. One order (rows of other orders are not shared), one request at a time on both retry routes, two events: a decline or capture and a late, repeated or wrong one; three attempts: decline, retry, decline, retry. Concurrent requests, more orders and events are covered by the proofs. No symmetry, as liveness is checked |
| `checkout_replay` | Double submits, replays, crashes, edits: `OneOrderPerCartAndKey`, `OrderIsItsCart`, `KeysLeadToTheirOrder`, `OnlineReplaysAgree`, and does every call end? `EveryCallEnds` | 261k. Two calls with the same or different keys and carts: each property relates at most two calls, and a third would meet the same rows |
| `accounts_races` | Three requests of two customers, checkouts and an erasure at once: `TypeOK` (with the limit of a list), `OneSavedCart`, `SameVersionSameBag`, `MergesLoseNothing`, `NoWaitCircle`, `ErasureIsForGood` | 228k up to symmetry. Two lists and two carts, which one merge locks in full; a third request makes a circle of three possible and lets one wait while two race; a list of one piece is full at once, so both sides of the limit occur |
| `quotes_totals` | Is an order's total what its lines add up to, what was shown, and made of prices and offers that were open? `AgreedTotals`, `RefusalsHaveCauses`, `PricesAndOffersWereOpen` | 2.9M. Two variants, two books (one of another currency), one price and one promotion added and ended, one coupon; prices of 9, 15 and 25 at 10 % off and a tax of 18 % do not divide, so rounding matters; a clock of three times has a before, a during and an after |
| `outbox_delivery` | Leases, verdicts, order: `OneHandlerAtATime`, `PublishedMeansDone`, `EffectsInOrder`, `RefundSettledOnce`, `VerdictsAreFinal`, `EveryEventSettles` | 109k. Two workers and two events, both of one order or one of an order and one of a refund, so that one waits for the other or they are handled together; limits 3 and 2 stand for 8 and 3; at most one crash (MaxCrashes) and one worker that sleeps through its lease (MaxStalls): one of each already gives a second handler for an event. `EveryEventSettles` also says that nothing waits behind the event of a cancellation, which has no handler |
| `inventory_stock` | Is stock never oversold, always accounted for and enough for what was paid, and does `Inventory` implement `StockPool`? `TypeOK`, `NoOversell`, `StockIsAccounted`, `CommittedCoversUnshipped`, `DeliveredMeansAllArrived`, `PoolSpec` | 66k. Two orders compete for up to three units in each of two locations with safety stock; three shipments, so holds split twice. Orders of several lines are covered by the proofs |
| `locks_circles` | Who can close a circle of waiting transactions, and does each end? `CirclesHaveCauses`, `EveryTransactionEnds` | 9.6k. Two transactions of every kind; a variant stocked again at another location after the second one was, so that variants and ids order the rows differently; two orders list the variants in opposite ways. Either cause alone closes circles here |
| `refunds_money` | Is only what was authorised paid, within capture and goods, and do books and provider agree? `PaidWasAuthorised`, `BooksMatchProvider`, `RefundsWithinCapture`, `PaidReturnsStand`, `GoodsRefundedOnce` | 882k up to symmetry. Two workers, lost answers and crashes at three refunds; two returns of a line whose price does not divide, small and large amounts |

Runs that refute what the repository says of itself:

| Run | What it shows |
|---|---|
| `payments_stale_retry` / `LivePaymentAccepted` | `retry_order` reads the order before the lock and is not refreshed under it. A decline in between leaves a new live attempt on an order in payment_failed; the shopper's capture is turned away to reconciliation. |
| `checkout_cod_replay` / `ReplaysAgree` | A cash-on-delivery response is stored without lock or second look: two calls with one key get different responses. |
| `accounts_erasure` / `ErasedStaysErased` | A route that has found its customer before the erasure commits an address, a profile or a message after it, to the erased row. docs/architecture-review.md:62 says the erasure removes them. `ErasureIsForGood` is what does hold: once such requests have ended, what is clean stays clean. |

Deadlock checking is off where the system may come to rest: all orders closed, all
identifiers of the instance used up. `locks_circles` has it on.

### Fairness

- `Payments`: weak fairness of a sweep that contains the order; the worker sweeps every 60
  seconds (`workers/main.py`), and an order that stays overdue is in some batch once it is
  not locked. No request, event or shopper is assumed to come. This takes for granted that
  the sweep itself does not raise: `workers/main.py:35-48` runs sweep, retention and the
  outbox in one `try`, so a step that raises each time holds up those after it.
- `Checkout`: weak fairness of each step of a call; the event loop runs it and PostgreSQL
  grants a lock that stays free. Calls may crash.
- `Outbox`: weak fairness of a worker's next step and of time; strong fairness of claiming
  an event, because retries of other events interleave while ids are taken in order.
- `StockLocks`: strong fairness of a lock, which others may take in between (PostgreSQL
  queues waiters), weak fairness of commit and of the deadlock detector.
- `Inventory`, `Refunds`, `Accounts` and `Quotes` are about safety and assume none.

## 4. Proofs

All theorems hold for every value of the constants that satisfies the assumptions named in
the modules: numbers in Nat, sets finite where something is counted or summed over them,
and None unlike what it stands beside. None uses fairness. Each proof
has an inductive invariant, a lemma per action or group of actions that keeps it, and
a last step that brings the specification in.

### Payments

`PaymentsProofs` proves, for any sets of orders, events and requests, any positive number
of attempts and any set of retry routes:

- `PaymentsType` : `Spec => []TypeOK`
- `PaymentsChargedOnce`, `PaymentsMoneyMatchesStock`, `PaymentsNewestAttempt`,
  `PaymentsInbox`: the safety invariants of `payments_races`;
- `PaymentsClosedOrders`, `PaymentsCheckout`: closed orders have no live attempt, the
  checkout's status follows the order's;
- `PaymentsHistory`, `PaymentsTransitions`: the action properties `HistoryIsKept` and
  `OrderTransitions`;
- `PaymentsLiveIsPayable`: without the retry-payment route every live attempt belongs to
  an order that accepts its capture, so the refuted `LivePaymentAccepted` is broken by
  that one route.

None of the safety invariants is inductive. `ChargedOnce` needs that a capture finds its
attempt live, that a live attempt is the newest, and that the ledger has one entry per
ended attempt;
`MoneyMatchesStock` needs to know what each status says of checkout, hold and attempts.
`IInv` collects this:

- `OrderInv`: what an order's status says of its checkout, hold, method and newest attempt;
- `AttemptInv`: attempts exist up to the newest; only the newest is live or captured; a
  live one belongs to a payable order, a captured one to a paid one;
- `LedgerInv`: transactions agree with attempts and inbox, one per attempt;
- `EventInv`: a stored event keeps its payload, and tells the truth if it is processed.

The proof has a lemma per group of actions and conjunct. Steps that touch one order are
handled by `OrdersStep`: it is enough to look at the orders a step touches. The action
properties follow step by step from `IInv`; the stale retry, for instance, finds the stock
held, hence the order payable whatever status it had read. `PaymentsLiveIsPayable` needs
one more invariant, `RoutesInv`: requests use the routes of the instance.
The theorems rest on the two named assumptions of `Payments` about its constants, and use
neither fairness nor the liveness part of the specification.

### Refinement of OrderLifecycle

`PaymentsProofs` also proves `PaymentsImplementLifecycle`: the initial states and every step
of `Payments` map to `OrderLifecycle` (expiry, its liveness, is checked by
`payments_races`). It needs `IInv` and one more invariant, `LapseInv`: only held stock
lapses. `LifeActions` gives the abstract steps in terms of the mapped state; then there is
a step per action of `Payments`, most of which change one order or stutter.

### Checkout

`CheckoutProofs` proves for any number of calls, keys, carts and lines: `OneOrder`,
`OrderLines`, `KeysLead`, `OnlineReplays` and `CheckoutType`. The invariant `CInv` adds to
these what a key and its order say of each other (`KeyOk`) and what a call knows at each
program counter (`CallOk`): in the cart phase it has locked its key and found it unused,
in the preparation its cart too, after phase A its order exists. The response of an online
order is stored once because the second look is made under the key's lock.

### Outbox

`OutboxProofs` proves for any number of aggregates, events, workers, crashes and stalls:
`AcknowledgedWasDone` (PublishedMeansDone), `OrderedEffects` (EffectsInOrder),
`SettledOnce` (RefundSettledOnce), `FinalVerdicts` (VerdictsAreFinal) and, as long as no
worker stalls, `OneHandler` (OneHandlerAtATime). `OInv` says that the events of an
aggregate are its first ids, what an event's state says of its effect and its
predecessors, and what a worker that holds an event may still do; without stalls, an
event in processing has one worker (`Solo`).

### Inventory

`InventoryProofs` proves for any finite sets of orders, variants, locations and shipments:
`InventoryNoOversell`, `InventoryAccounted`, `InventoryCovers`, `InventoryDelivered`,
`InventoryType` and `InventoryImplementsPool`, the refinement of `StockPool`. `IInv`
joins the types of the tables (`Tables`), what an order's status says of its holds
and shipments (`OrdersOk`), and each stock row with the sum of the holds on it
(`StockOk`). The hard part is a unit count that is spread over several locations:
`Taken` has row after row give what it can, in the order of their identifiers, and
`TakenOk` says that together they give exactly what was asked for. The refinement sums the rows of a
variant.

### Refunds

`RefundsProofs` proves, for any orders, returns, refunds, people and workers and any
amounts:

- `RefundsPaidWasAuthorised`: the provider pays only what was requested and, above the
  threshold, approved by a second person, and nothing it has paid is rejected later;
- `RefundsPaidReturnsStand`: a return and the refund that went out for it are marked
  alike, and no other refund goes out for it;
- `RefundsType`.

Neither of the first two is inductive: a worker acts on a refund it read a transaction
earlier, so `RInv` says that whatever a worker holds or the provider has paid went out
(`WorkInv`), what an approval says of the refund's status (`ApprovalInv`), and that a
refund's return exists (`LinkInv`). `RowsInv` has the types of the rows involved.
`MarkKeeps` is the lemma about the two handlers that mark a return: an inspected one has
no refund that went out.

The second half adds the sums: `RefundsCaptured` (RefundsWithinCapture),
`RefundsBooked` (BooksMatchProvider) and `RefundsOfGoods` (GoodsRefundedOnce). No step
changes more than one refund and one return, so each sum changes by one term. The bounds
on goods need that what each return is worth, rounded down, adds up to no more than the
line.

### Stock locks

`StockLocksCircles`, at the end of `InventoryProofs`, proves `CirclesHaveCauses` for any
numbers of transactions, orders and rows, and rows created in any order. `StockLocks` keeps
what a transaction has yet to lock as a set of turns and rows. A checkout takes its rows by
variant and id, a cancellation or an adjustment by id (`Ranked`); the invariant says that one
which neither dispatches nor sweeps wants only rows that come after those it has (`Upward`)
and that an adjustment has none while it wants one (`AdjustsOne`). Take a circle without
dispatch and sweep and the rows waited for in it. Whoever has the last of them by id waits
for an earlier one, so it is a checkout that goes backwards (`SomeoneGoesBackwards`). Whoever
has the last by variant and id is no checkout, and an adjustment in a circle has nothing, so
it is a cancellation (`SomeoneCancels`). The code does not prevent these circles: a variant
gets a row at another location whenever the staff stocks it there.
The hypothesis `LockConstants` repeats the three assumptions of `StockLocks`, whose constants
`InventoryProofs` renames (two modules have Orders and Variants); TLC evaluates them in
`locks_circles`.

### Accounts

`AccountsProofs` proves, for any numbers of requests, customers, subjects and ids, any
finite set of pieces and of carts and any limit of a list:

- `AccountsTypes` (TypeOK): no list exceeds its limit, although a merge counts before it
  copies;
- `CustomersHaveOneCart` (OneSavedCart) and `VersionsTellBagsApart` (SameVersionSameBag);
- `ListMergesLoseNothing` (MergesLoseNothing): what goes with a guest list is on the
  account's, up to the limit;
- `MergesNeverDeadlock` (NoWaitCircle), for circles of any length;
- `ErasedRowsStayOutOfReach` (ErasureIsForGood).

`IInv` joins what the session of a request is (`LockInv`: its locks are those of its step
and nobody else's; `RowInv`: it has the only row of its subject, and alone) with what it
knows of the rows it locked (`ListOk`, `CartOk`). `ListOk` survives an erasure, which asks
for no list lock, by the case that the target is gone and somebody was approved for
erasure. `OneSavedCart` rests on the subject's lock: a cart becomes a customer's only under
it, and `CartOk` has the number of the customer's other open carts at each step. Two
facts break a circle: a request that waits for a second lock waits for a row of its own
customer, who is nobody else's (`RowInv`), and the owner of that lock is not itself about
to lock a second row (`CrossInv`), so a circle would end with a request that waits for
nothing.

### Quotes

`QuotesProofs` proves for any finite set of variants, any books, codes, quantities and
clock: `OrdersKeepAgreedTotals` (AgreedTotals), `ChangesAreReal` (RefusalsHaveCauses) and
`OrdersHaveOpenPrices` (PricesAndOffersWereOpen). Assumed are that amounts are not negative
and percentages in 1..100, which are constraints of the tables (`amount_nonnegative`,
`percent_valid`), and a tax rate of at most 100.

The lemmas are about the functions of `Pricing`: `HalfUpBounds` bounds what is rounded
(`a * k \div 100` with an amount that is a variable is where the prover needs every step),
so `LineBounds` has a discount and a tax stay within their line; `EffectiveIsCandidate` and
`BestIsOne` say that a price chosen is one that is in force and an offer one that runs;
`LinesAddUp` that the total is the sum of the lines. The invariant `QInv` follows a request
through its selects: each price found so far was open at some moment since the request
began (`FlightOk`), and as long as nothing changes is the one that prevails (`SteadyOk`),
of which the total shown is made (`ShownOk`). Times only go up and rows are only added or
ended later, so what was open at some moment stays so.

### Sums and orders

`SumTheorems` proves of the community modules' `SumFunctionOnSet` what the modules
above need. The fold is a recursive function on the subsets of a set; where induction over
a finite set is needed, the proof takes a smallest counterexample (`SmallestSet`, from the
library's WFMin), since induction theorems over an operator are out of the provers' reach.
`FirstExists`, that a finite set has a first element in a connected, transitive order, is
proved the same way.

### Only model-checked

Liveness (`OverdueOrdersExpire`, `EveryCallEnds`, `EveryEventSettles`,
`EveryTransactionEnds`), which is out of the prover's reach. Every safety property of a
passing run has its theorem; `OneHandlerAtATime` is proved for workers that do not stall, as
it is stated.

## 5. Plan

Done: Payments with its abstract specification, Checkout, Outbox, Inventory with StockPool,
StockLocks, Refunds, Accounts (Privacy, Wishlists, SavedCarts), Quotes (Pricing, Catalog),
each with proofs of all its safety properties.

Left, in this order:

1. Compositions: `Payments` with `Inventory`'s counts (the hold status as refinement
   mapping); `Outbox` with `Refunds` (the settlement step of one is that of the other);
   `Quotes` with `Checkout`'s keys.
2. `update_address`, which reads the checkout's status without a lock, in `Checkout`.
3. The abuse guard's windows and the key cache as small modules.

## 6. Not modelled

- `update_address`: it writes the checkout's address, which only the checkout's own
  responses show; the order has its own copy.
- A guest's support case and the staff's status changes: rows without an owner, whose
  status nothing else reads. Clearing old provider payloads in the retention sweep: it
  keeps the inbox row, which is all `Payments` relies on.
- The public catalogue, media links and content pages: queries, or rows no modelled
  handler reads.
- Abuse guard: counters of one process that run without an await, so nothing interleaves.
  Security and token verification: cryptography behind a cache of one process.
- Copilot, configuration, telemetry, health, migrations and scripts: reads, settings or
  one-off commands without a state machine of their own. Constraints that the migrations
  create are named where a model relies on them.

Three hazards of the code have no property (`PROJECT.json`, "hazards"):
`workers/outbox.py:175`, where an event whose handler kills its worker is retried for ever
(the model bounds crashes); `workers/outbox.py:122`, where a stalled worker and its
successor may both insert a receipt, which is harmless; and `db/base.py:29`, where
clocks of two processes that disagree reorder ids, which `Outbox` assumes away.
