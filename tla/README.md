# restaurant-engine: specifications, model checking and proofs

Restaurant Engine is a multi-tenant back end (FastAPI, SQLAlchemy, PostgreSQL at
READ COMMITTED) with a customer storefront and a control center in TypeScript. The
modules model both sides of its requests. On the server: which locks a request takes,
what it reads before and after taking them, what it commits, and what a crash, a retry
or a racing request leaves behind. In the browser: what a page keeps, what it sends,
and what it does with answers that are lost, late or about something that has changed.

`tlc -config X.cfg M.tla` runs a check (§3 names each run's configuration and MC
module), `tlapm M.tla` the proofs of `M`, one of the seven modules whose name ends in
`Proofs` or `DataFacts`; `PROJECT.json` lists the runs, the mutants that show each property can fail, the
source lines every definition stands for, the hazards and the findings.

## 1. The system

| Component | State it keeps | Operations | Interacts with | What is hard, and what makes it correct |
|---|---|---|---|---|
| Order placement (`orders/service.py` `place_order`) | orders, lines, events, outbox, idempotency rows | place | Business row lock, hours, catalog, entitlements, audit | one order per key under retries and races; dense numbers; cap, schedule and lifecycle hold at commit; pause honoured |
| Order operations (`transition_order`, `set_estimate`, `cancel_by_token`) | order status, event timeline, estimate | accept, reject, prepare, ready, complete, cancel, estimate, customer cancel | Business and order row locks, audit | no transition lost or doubled; a confirmed cancellation stands; deadlocks end |
| Order reads and metrics | none | list, metrics, tracking, slots | orders | pages that are read one after another make one list |
| Cart pricing | none | price a cart | catalog | what the picker composes is accepted at the total it shows |
| Hours settings (`hours/service.py`) | weekly intervals, exceptions, fulfillment settings, pause | set schedule, exception, fulfillment, pause | Business row lock, hours page | no overlapping intervals, also across the end of the week |
| Slot arithmetic (`hours/availability.py`, `timekeeping.py`) | none | open now, pickup slots, next pickup | hours rows, the clock | open exactly while an interval runs; midnight, DST gaps and folds; earliest means earliest |
| Business lifecycle and settings | status, timezone, name | create, activate, suspend, reactivate, close, set timezone | everything keyed by a business | no active business without an owner; closing is final |
| Entitlements | granted features | replace the set | placement, public menu | a revoked feature stops new orders |
| Host resolution | none | host to active business | every public request | what it captured may be stale when it is used |
| Invitations and memberships | invitations, memberships, users | issue, revoke, accept as new or existing user | Business, Invitation, User locks | an invitation is used once; two-phase accept around the password hash |
| Sessions, login, throttling, recovery | sessions, failure counts, reset tokens; in a tab the cached session | login, logout, resolve, issue and redeem reset | users, every page | a check made against a snapshot; tokens used once; a late answer must not revive a session |
| Catalog | categories, items, groups, options with positions | create, move, reorder, delete, attach image | Business row lock, media | positions stay dense, the featured limit holds |
| Media lifecycle | asset rows, stored objects | upload, attach, delete, TTL sweep, orphan sweep | object store, catalog, storefront | a live row always has its objects; ambiguous commits |
| Storefront versions | draft, published and archived rows | save draft, publish, restore, assign design | Business row lock, media claims, control center | one draft, one published; history immutable; no silent overwrite |
| Audit log | audit rows | record, page | every write | its foreign key locks the Business row; numbers are taken before commits |
| Customer storefront (browser) | cart in localStorage, checkout form, held key, tracked order | pick, add, check out, track, cancel | public API over a network that fails | a retry is the same request; the form cannot loop in refusals; old polls do not win |
| Customer storefront (server rendering) | per request: reads with a deadline, a cache of their results | render a page, its metadata, robots.txt, sitemap.xml | public API | one page is of one version; a failed read is not a 404; a stalled backend does not hang a request |
| Control center | query caches, forms, dialogs, notices | the same commands | admin API | a form older than the cache must not overwrite what it did not touch; late answers; a timer shared by notices |
| Authorization, composition schemas, public projections, API client, renderer, migrations, scripts | none that changes | checks, projections | | read-only, generated or one-off |

## 2. Modules

The server's transactions, proved about:

| Module | What it is |
|---|---|
| `OrderBook` | the abstract specification: a ledger in which an order is placed in one step, moves along the status machine in one step, and changes in no other way |
| `Orders` | the transactions: every request as a sequence of SQL statements with its locks, and the environment of edits, deadlocks and crashes |
| `OrdersProofs` | the inductive invariant of `Orders` and the theorems |
| `Storefront` | the version rows of one restaurant, the commands on them, and editors that keep what they read with its token |
| `DraftComposer` | the control center's composer in front of `Storefront`: query cache, form, conflict panel |
| `StorefrontProofs` | the inductive invariant of `Storefront`, the theorems, and the composer's refinement of it |

The customer's side, the order board and the pages as the server renders them, composed in
`MCCustomer`:

| Module | What it is |
|---|---|
| `Cart` | pure values: lines, merging, the picker's rules, the stored cart's schema, the server's pricing |
| `Shopping` | the menu page: a picker over the menu it was rendered from, a cart in storage that a checkout page changes in another tab, a menu that changes |
| `Checkout` | the checkout form, its held idempotency key and displayed total, against the server's placement over a network |
| `Tracker` | the page that polls an order by its token and cancels it |
| `OrderDesk` | the board: the watch for new orders, the alert, the drawer and its commands |
| `Pages` | the paged lists: the orders of the board, the audit trail |
| `Notices` | the control center's notifications: one timer and one flag for all of them |
| `SiteRender` | one request after another to the public site: layout, metadata and body side by side, each from reads that may fail or stall |
| `DataFacts` | what sums, folds, recursion over numbers, descending sequences and dense places are, for every input |
| `CustomerProofs` | the proofs of every safety property of the composition |

The control center and what its commands do on the server, composed in `MCWorkspaces`:

| Module | What it is |
|---|---|
| `Query` | a TanStack query: the last data, one fetch whose answer counts, invalidation, `setQueryData` |
| `Tables` | rows that stand in an order of their own, shared by the menu, the add-ons and the images |
| `Catalog`, `MenuDesk`, `ItemDesk` | categories and items on the server; the menu overview; the pages of an item |
| `ModifierDesk` | the groups and choices of an item, and the section that edits them |
| `Availability`, `HoursDesk` | the hours and what they mean at an instant; the hours page, and the clock |
| `MediaDesk` | rows and objects, upload, sweep, and the library dialog on an item |
| `SectionDesk` | the sections of a draft: list, dialog, save and publication whose answers come late |
| `PriceField` | the price in the form of an item: text to minor units and back, by the currency's exponent |
| `SessionDesk`, `Accounts` | one tab as its visitor signs in and out; one account on the server |
| `PlatformDesk` | lifecycle, invitations, acceptances, and the page of a platform administrator |
| `ItemFieldsProofs` | what an item has besides its row in the menu: add-ons, image and price, each proved of its desk alone |
| `AccessProofs`, `HoursProofs` | invitations and accounts, and the hours, likewise; `StorefrontProofs` has the sections |
| `WorkspacesProofs` | the same of the composition; the tab of `SessionDesk`, the menu and the pages of an item |

`MCOrders`, `MCStorefront`, `MCDraftComposer`, `MCCustomer` and `MCWorkspaces` are the
instances for TLC. The last two are also what is proved about: every size and bound of the desks
that the theorems are about is a CONSTANT of theirs, to which the configuration gives a value, and
`MCWorkspaces` takes its instances of the desks with a proof module from that module, so
that their theorems are at hand. A desk holds the server's side of its commands too, since its page is
what sends them; `Orders` and `Storefront` hold the server's side of the rest in more
detail.

### How `Orders` corresponds to the code

A request runs in one session and ends it (`get_session`), so `pc[t]` is the
statement the request is at, `Answer` is COMMIT or ROLLBACK, and both release the
locks. A placement `p` walks the stages of `place_order` in the order of the code:

| Stage | Action | Code |
|---|---|---|
| (arrives) | `BeginPlacement` | `resolve_public_business`: only an active business; its timezone is kept in the request |
| `entitlement`, `pickup` | `CheckEntitlement`, `CheckPickup` | `_require_ordering_enabled` |
| `lookup` | `LookupKey` | `get_idempotency` and `_replay`, before any lock |
| `pause` | `CheckPause` | `ordering_effectively_paused` |
| `cart` | `PriceCart` | `checkout_view`, `price_cart`; a stale cart is a nondeterministic refusal |
| `lock` | `LockForPlacement` | Business FOR UPDATE and the second look at the lifecycle |
| `reserve` | `Reserve` | `_resolve_promise`, `count_orders_for_slot`, `next_order_number` |
| `insert` | `Insert` | the flushes and the COMMIT with their unique constraints, and the reload of the winner |

A command goes through `lock` (only if it frees a slot), `row` (order row FOR UPDATE)
or, for the customer's cancellation, `read` (no row lock), and `flush`. Statements
that nobody else can influence are merged into one step.

Locks. `bizLock` is the Business row FOR UPDATE and `rowLock` an order row. Each
`audit_events` row references the Business, and PostgreSQL takes the referenced row FOR
KEY SHARE at the flush; nothing is waited for after that, so it is a guard
(`CanReferenceBusiness`). A session re-reads fresh rows because the ORM objects of
earlier reads have been dropped. The audit row's reference to the user is left out:
users are not locked by anything in this module.

The restaurant's own edits take the Business row, wait for nothing else and commit:
each is one step, possible only while the row is free. `shop.hours` is the set of
wall-clock times the schedule opens, `Clock[zone][wall]` their instants, so that a
change of timezone moves every instant. Which offered instant ASAP picks is left open.
The clock itself and lead times are in `Availability`, which has no placements.

### How `Storefront` and `DraftComposer` correspond to the code

Every storefront command takes the Business row FOR UPDATE before it reads anything
and keeps it to its commit, so a command is one step. Inside it, what can fail is the
order of the flushes: `Transaction` is given the table after each flush, and if one of
them violates a constraint of `models.py` (`Storable`) the command dies with answer
`constraint`. `publish` is three flushes: archive, promote, seed.

| Action | Code |
|---|---|
| `PutDraft` | `put_draft`: create without a token, update with one, the exact no-op |
| `MediaUnavailable` | `_claim_referenced_media` refuses the save; which image is missing is left open |
| `Publish`, `RestoreVersion`, `AssignDesign` | the command of that name |
| `RefuseClosed`, `Close` | `authorize_write` on a closed business; `businesses.service.close` |
| `ReadOverview` | `get_overview`, without a lock |
| `Shows` | a mutation's answer carries the draft and may be lost |

Row ids count up and stand for the UUIDs. An overview is one snapshot of the draft; the
published summary, read in a second statement, is not kept. Commands that are refused
whatever the state (an unknown version, a published source) are left out.

In `DraftComposer` some editors are browsers with a draft composer. `cache` is the
overview query (`useStorefrontOverview`), which a mount or a regained connection
refetches at any time; `seen` is what the form was filled with (`useForm` reads its
defaults once per mount); `CachedToken` is `draft.lock_version` of the current render.
An answer, the cache's merge and the form's reset are one step; a refetch in flight
while a mutation commits is not modelled. `CacheIsTheEditor` maps the cache to the
memory of a `Storefront` editor.

### How the pages correspond to the code

A page's state is the state its component keeps (`useState`, the form, the query cache) and
a request is a step of its own between the click and the answer: it is sent, the server
handles it (or it is lost on the way, or its answer is), and the callbacks of the mutation
run when it lands. Whatever `onSuccess`, `onError` and `onSettled` do to the caches belongs
to that last step. "Elsewhere" actions are other administrators, other tabs and the other
side of the counter; they change the server by the same operators that the page's own
commands use.

| Module | State and the code that keeps it | Steps worth knowing |
|---|---|---|
| `Query` | `useQuery` with `staleTime` 0 and no retries: `data`, an error flag, the fetch in flight | a tick joins a fetch under way, an invalidation replaces it; an answer carries what the server had at some time since it was asked |
| `Shopping` | `dialog` is `ModifierPickerDialog`, `storage` is `cart-storage.ts`, `badge` is `CartLink` | `AddToCart` re-reads the storage, merges and saves (`handleAdd`); `tab` is the cart of `CheckoutForm` in another tab, which saves its own copy whole (`updateCart`) |
| `Checkout` | `form` is `CheckoutForm`'s state, `form.key` its held key, `wire` the network | `Verdict` is `place_order`'s order of refusals; `ShowRefusal` what `handleSubmit` does with each |
| `Tracker` | `view`, `polling` of `OrderTracker`, `flights` its requests | `TakeAnswer` is `refresh` or the end of `handleCancel` |
| `OrderDesk` | `watch` is `useIncomingOrders`, `noticed`, `arrivals` the alert of `OrdersPage`, `details` one query per order | `LandWatch` compares successive polls; `TakeResult` writes the answer and invalidates |
| `Pages` | `onList` is an infinite query's pages, `reading` its fetch, `entries` the rows by number | an audit row has its number before its commit (`EndTransaction`); `TakePage` asks for the next page below the last cursor |
| `Notices` | `items`, `held` of `NotificationProvider`, `timer` its timeout | `Render` leaves the effect for later, as React does; `RenderNow` runs it at once, as after a click |
| `SiteRender` | `memo` is `React.cache`, `sockets` the transports of `tenant-fetch.ts`, `parts` the document | `Needs` is the order of the reads of a page; `Timeout` is a `setTimeout` that destroys the request, cleared only when the whole body is there |
| `MenuDesk`, `ItemDesk` | `tree` is `useAdminMenu`, `dialog` and `page` the forms, `base` what a form compares with | `AdoptItem` takes the tree's values again whenever they differ from the ones last taken |
| `ModifierDesk` | `groupQuery`, `window` the dialog, `sequence` the order being arranged | the order may be saved beside a dialog's command |
| `HoursDesk` | three panels with their own forms over one query | each answer is the whole settings and is written into the query |
| `MediaDesk` | `worker` is `process_upload`, `candidates` and `doomed` the sweep, `picker` the library dialog | objects first, then the row; deletion: row first, then objects; `claim` is an attachment that waits for the lock with the clock of its beginning (`claim_for_attachment`) |
| `SectionDesk` | `composition` is the composer's form, `sectionDialog` a copy of one section | the dialog writes by index, the save's answer resets the form |
| `PriceField` | `field` is the input, `taken` what the form took last from the item, `pricing` the save | `Adopt` is the form's `values`; until the business is read the exponent is that of dollars |
| `SessionDesk` | `session` is the cached session, `attempts` the requests that establish one, `told` the sessions the tab was told are over | `Overtaken` is the generation that `clearAuthenticatedState` counts |
| `Accounts` | `work` the requests, `user`, `sessions`, `tokens` the rows, `trail` the account's audit rows | passwords are hashed between transactions: `BeginLogin` keeps a snapshot, `Revalidate` looks again behind the lock |
| `PlatformDesk` | `detail`, `listed` the queries, `guests` the acceptances under way | `BeginAccept` is the first transaction; `LockAccept` starts the second, on whose clock the invitation is fresh or not, and `FinishAccept` is what it does behind the lock; with an account there is one |

In `Availability` a day has a few minutes, a zone has one change of its clock, and
instants are minutes of UTC; the functions are those of `availability.py`,
`timekeeping.py` and, for the forms and their warnings, of the hours page.

## 3. Runs

| Run | Question | Instance |
|---|---|---|
| `orders_race` | do idempotency, numbering, pause, schedule and cap hold, and do the transactions implement the ledger, while placements race each other, a command and two edits | 2 placements, 1 command, 2 keys, 2 slots, 2 zones, cap 1 or none, 2 edits |
| `orders_kitchen` | does one order's timeline stay honest when members and the customer race on it | 1 placement, 4 commands |
| `orders_progress` | is every request answered | 2 placements, 2 commands, fairness |
| `orders_lock_order` | is the documented lock order acyclic (no) | 1 placement, 2 commands |
| `orders_duplicate` | is a concurrent duplicate answered with its order (not under a cap) | 2 placements, 1 key |
| `orders_timezone` | is every promise an instant of the current schedule and zone (no) | 2 wall times, 2 zones, 1 edit |
| `storefront_versions` | do constraints, numbering, provenance, immutability and the token hold while two editors and the platform write over a lossy network | 2 editors, 2 compositions, 2 designs, 4 rows, lock 0..2 |
| `storefront_overwrite` | is a write that is based on another draft always refused (no) | 2 editors, 3 rows, lock 0..2 |
| `storefront_composer` | is a save of an outdated form always refused (no) | 2 composers, 2 rows, lock 0..2 |
| `customer` | is the customer's side honest: cart, held key, retries, tracker; does the board notice; do the lists' pages make one list; do notices go; is a rendered page of one time | one page at a time, see below; fairness |
| `checkout_retry` | does a retry after a failure never place a second order (no, after a changed price) | the checkout with 2 edits, 1 price change, 1 fault, 1 request on the network |
| `workspaces` | do the pages of the control center send what they show, and does the server stay sound under them | one desk at a time, see below |

The configuration of a run has the run's name in CamelCase; the module is `MCOrders`,
`MCStorefront`, `MCDraftComposer` (`storefront_composer`), `MCCustomer` (also `checkout_retry`) or `MCWorkspaces`.
A behaviour of `MCCustomer` is that of one page (`at`: menu, checkout, track, board, list,
notices, site)
and one of `MCWorkspaces` that of one desk (`desk`: menu, item, composer, modifiers, hours,
clock, media, storage, price, session, platform, onboarding, sections, accounts), chosen by `Init`;
the variables of the others keep one value. The pages have no state in common but the
database, whose other side each desk has in it, so nothing is lost by looking at them one
at a time, and a state space is their sum instead of their product.

What the two runs check:

- `CartAsShownIsAccepted`: a cart composed from the current menu, stored or copied to the
  checkout page of another tab, is priced at the shown total and refused just if that is beyond the bound.
- `HeldKeyPinsContent`, `RetryIsSafe`: what was sent under the held key is what the form says
  (but for the total); the same content submitted again makes one order, unless a refusal
  came in between. `PersistencePays`: no combination of refusals, adopted totals and refreshed
  slots keeps an acceptable form from becoming an order.
- `TrackerCatchesUp`: with answers in the order of asking the tracker ends with the order's
  status (`TrackerSettles`); in any order it does while it polls (`TrackerFollows`).
- `BoardStaysTrue` (`RefusedStaysRefused`, `CountedOnce`), `BoardCatchesUp`: the board, with polls, commands and
  refetches that overtake each other; the last says that a new order is noticed and that an
  open drawer ends with the order's status.
- `PagesAreOneList`: no entry is on two pages or lost between them that matched all the time.
- `OneGoesForAReason`, `NoticesGo`: a timeout set for a notice takes no other, whatever was
  dismissed or evicted before the effect ran; with nothing holding the region all of them go.
- `PageIsOneOfItsTime`: layout, metadata and body show one version, whatever is published
  between their reads; nothing on a page, nor its 404, is of a time before the request, and a
  failed read is never a 404. `RequestIsAnswered`: each request ends though the backend stalls.
- `CatalogStaysSound`: positions are dense, names unique, no more items featured than may be,
  groups and choices in their parents; a group the page calls unsatisfiable is.
- `EditKeepsTheRest`, `NothingUnseenIsSent`: a form that is older than the server sends only what was
  typed, a publication publishes what is on screen, and a stored price is to the last unit what
  the field said in the currency it was in; one taken from the item is not sent.
- `CacheIsTheEditor`: the composer's cache is an editor of `Storefront` (a refinement).
- `HoursMeanWhatTheySay`: open times are the union of the intervals, and the next pickup is the
  earliest: at every minute of a stretch that holds a clock change, against definitions that
  quantify over all dates and slots.
- `GapsAreMarked`: whatever row is typed, the forms mark, among the hours they scan, just the
  boundaries that the server will move out of a gap, on each date that the row may stand for; with an
  early gap these are all that it moves (of a late one see §4).
- `ImagesServable`: no failed or doubtful upload, deletion or sweep takes the bytes of a row, or
  the row an item shows; and no sweep takes an image that was promoted after it was selected
  (`PromotedIsKept`).
- `SessionsStaySound`: in a tab, a session it was told is over is never cached again; on the
  server, failures since the last success are counted, no session opened before a completed
  reset is honoured, and a token completes one reset, of the one issued last.
- `InvitationsStaySound`: one live invitation per person, every member admitted by one
  invitation with its role that was not revoked and had not expired when the admitting
  transaction began, no active business without an owner.

### Bounds

Orders: two placements are enough for every race on a key, a number or the last
place in a slot, since each constraint compares two rows; four commands let a path
through the status machine race a cancellation and an estimate; two edits allow an edit
and its undoing, which is what a request that reads twice can miss. `MaxEdits` is the
only artificial bound. Storefront: `MaxRows` counts versions and `MaxLock` bounds the token:
four rows are three publications, so a restore can come from a version that is two back and
be published again; a lock of 2 lets two writes fall between reading and writing, and after
a publication the token takes the values it had before.

Customer: one item with two options in five menus (required and optional groups, limits,
sold out, a minimum that cannot be met), two lines of at most two; two page loads. Checkout: one slot, one set of details,
six keys (each submission without a held key takes one that was never used, so their number
bounds the submissions), two requests on the network, two edits, one visit, two changes of the restaurant
and one fault. A second order needs two requests that are told apart by one edit or refusal.
Tracker: three requests under way, so that two overtake a third. Board: two orders,
one order per page of the watch, one kind of command (`reject`, the one that is
confirmed and whose refusal is shown), one drawer, one lost request. List: four entries on
pages of two, so that an entry can fall between two pages and after the last; one filter;
one order that moves or one request that fails. Notices: three on screen, as in the code, five
ever, four moves of the pointer or the focus. Site: two requests, two versions, one change of the
restaurant or failed read; four restaurants to begin with (selling with a menu on its page, not
selling without, never published, suspended). One change is enough for a page to straddle it.

Control center: each desk has one command under way at a time and two or three steps of
others and faults (`Max...Events`), which is enough for a change and its undoing between
reading and writing. Menu: two categories and items, one item may be featured. Add-ons: two
groups, two choices, the typed limit is 2, and other administrators create only groups. Composer:
two rows, so one publication, and a lock of 1; `storefront_composer` has a lock of 2.
Hours: three days of eight minutes, 17 minutes of time, zones without a change, with a gap early
or at the end of a day, and with a fold. Media: two images ever, two objects each, one upload and one
attachment by another under way; the dialog is
not reopened while an earlier upload or deletion runs; an upload is shorter than the sweep's
safety age, and a commit whose answer is lost is decided when the row is probed. Sessions:
two sessions, one tab, one person, one privileged request under way. Platform: one page of
pending invitations; one person with the page, two people and three invitations without it.
Sections: two types, headings that are short or that only the server refuses, one photo, two
images in a gallery, four edits, two saves of another editor or lost answers: enough for a
publication whose answer is lost, another's save of the next draft up to the number of the lock
that the form still has, and a publication under it, which is the reuse of the token that
`storefront_overwrite` shows. `strayed` remembers that the form is of a draft published since, and
`PublishedAsShown` promises nothing of such a form. Background reads are left to `DraftComposer`.
Price: currencies of no, two and three digits, prices 0, 5 and 505, what is typed has at most one
digit before the dot and three after it (so that padding, cutting and a digit too many
happen), and two saves, lost answers or prices set elsewhere; five is a cent amount that
needs a leading zero. Accounts: three requests, two tokens, two passwords; throttling
begins at one failure instead of five, and whether the backoff or a session's time is over
is left open.

`CHECK_DEADLOCK FALSE`: every one of these systems stops when the requests have been
answered and the bounds used up. Ids, commands and keys are symmetric in the order and
storefront runs, except where liveness is checked.

### Fairness

`WF(Placement)` and `WF(Command)`: a worker thread runs its request and PostgreSQL grants a
free lock. `WF(DeadlockAbort)`: PostgreSQL's deadlock detector. No client has to call, no
restaurant has to edit, and no worker has to crash. In `MCCustomer`: the server handles what
reaches it, answers reach the page, and the page's timers tick (the checkout's requests, the
tracker's and the board's intervals). `PersistencePays` is about a visitor who presses the
button again, so `Submit` is fair. Losing a request is never fair, its number is bounded, and
no answer is overtaken for ever. `TimerFairness`: React runs an effect that is due, a timeout
fires that is not cleared, a read is made when a render comes to it, and a render goes on; the
backend need not answer a page. The storefront modules and `MCWorkspaces` state safety only.

## 4. What the code does not do as documented

1. **Lock order** (`orders_lock_order`). ADR-027 and `transition_order` say the order is
   acyclic. Accepting an order locks its row and then, through the audit row's foreign
   key, the Business; rejecting or cancelling it locks them the other way round. One of
   the two becomes a 500. `orders_progress` shows that both still end.
2. **Concurrent duplicates** (`orders_duplicate`). ADR-026 says the loser of two identical
   submissions returns the winner's order. If the winner filled the slot, the loser is
   told `slot_unavailable` before it reaches the unique constraint.
3. **Timezone** (`orders_timezone`). The zone is read at Host resolution and never
   again, so a placement overlapping `set_timezone` promises an instant of the old zone.
4. **The draft's token** (`storefront_overwrite`). ADR-020 says a stale write is never a
   silent overwrite and that an owner approves content, not a row. `lock_version` starts
   again at 0 with the draft a publication seeds, and nothing else identifies the draft: a
   form or a publication based on the previous draft at the same number is accepted. The section
   editor meets it too, after a publication whose answer was lost (`strayed` in `SectionDesk`).
   `StaleWriteRefused` is what does hold: within the life of one draft the token works.
5. **The composer's form** (`storefront_composer`). ADR-022 says only an explicit reload
   adopts a newer `lock_version`. The form keeps its values, but the token is taken from
   the query cache, and a mount with cached data or a reconnect refetches it: an old form
   is saved under a new token and the other editor's save is gone. `CacheIsTheEditor`
   places the fault: the cache is a correct editor, the form is not the cache.
6. **A retry that orders twice** (`checkout_retry`). The page says a retry creates no
   duplicate. After a `price_changed` refusal the displayed total is the server's only until
   the answer to the next submission is lost. The order exists; the retry carries the cart's old
   total under the held key, is refused as a reused key and drops it; the next click is refused as
   `price_changed` under a new key, and the one after it is a second order. The run keeps one request on
   the network, so that its trace is this one and not that of a delayed first request, which a
   refusal also lets become a second order. `RetryIsSafe` is what holds.

Seen while modelling, without a run of their own; the properties are stated so that they
say what does hold:

- *Orders.* The tracker stops polling at an answer that an older poll may overwrite
  (`OrderTracker.tsx:54`); a replay carries no tracking token and leads to a not-found page
  (`CheckoutForm.tsx:213`); a 422 is shown as a connection problem; a drawer waiting for
  a confirmation keeps a command that a poll has made illegal (`OrderDrawer.tsx:26-28`); a
  write into a query can be overwritten by a poll that was sent before it.
- *Cart.* `cart-storage.ts:4-6` says the cart is only in memory; two tabs lose each other's lines.
- *Audit.* `audit/queries.py:8-10` says new rows appear only before the first page. A number is
  taken before the commit, so an event can appear between pages that were read.
- *Accounts.* `logout` and `redeem_reset` lock a session and the account in opposite orders, so one
  may become a 500; a login that replaces an outdated hash, begun before a reset, writes it over
  the new password, and a login verified against the old password opens its session after the reset. A late 401 of a request of an earlier session clears a later sign-in.
- *Menu.* The editor's late answer may put an older item into the form, after which the next save
  sends the difference; a refetch discards typed values when the item changed elsewhere;
  arranging a category that has vanished leaves no way out but a search; the dialogs for groups
  and choices send whole forms; a refused deletion of a group does not refetch.
- *Hours.* The forms look for gaps only before 05:00, since none is later (`WeeklyHoursEditor.tsx:28`,
  `ExceptionDialog.tsx:29`). `businesses/schemas.py:90` accepts every zone of the database, and America/Nuuk
  goes from 23:00 to 24:00 in March: a boundary in that hour is moved without a mark. `next_pickup_at` is not the earliest when a date's own hours overlap the night before
  or the clock falls back; each save is a whole document, so `FulfillmentPanel.tsx:91-92` holds
  only of one editor; answers of two saves may land in the other order; a failed background read
  unmounts the panels and their forms.
- *Composer.* `SectionCard.tsx:20` and `SectionEditDialog.tsx:243` say nothing is edited while a save
  is pending; the list is, the answer discards it, and an open dialog writes by index, so it can
  replace another section or append a second of its type. A composer that is mounted
  during a save shows the old values with the new token.
- *Notices.* `NotificationProvider.tsx:57-59` says that pointer and focus hold the region; they share
  one flag, so the pointer that leaves (`:111`) lets a notice go that has the focus, and the flag
  stays set when the focused notice is dismissed by key or evicted (`:117`), which removes its button
  without a blur: the rest then stays until the pointer passes. Hence the premise of `NoticesGo`.
- *Prices.* `money.ts:22-24` says that assuming two digits would corrupt amounts; until the
  business is read, `ItemEditorPage.tsx:81`, `ItemCreatePage.tsx:45` and `MenuOverviewPage.tsx:146` take the exponent of
  dollars, and what is typed in that time is stored by it. `itemForm.ts:164-166` says that an
  untouched field is not sent; a form reset to the answer of a save (`ItemEditorPage.tsx:154`) is
  compared with an item read at another time, so its price may be sent again over a newer one.
- *Rendering.* `layout.tsx:24-26` and `order/page.tsx:17-19` want one neutral page for every host that
  shows nothing; where only ordering is off, the not-found page is inside the restaurant's theme
  (`layout.tsx:41`).
- *Platform.* A failed background read of the business unmounts the invitations panel and loses the
  token that is shown once. The library dialog ignores `deleteConflictMessage` for a 409.

## 5. What is proved

`OrdersProofs` proves, for any number of requests, keys, slots, zones, caps and
edits, from the assumptions `BookConstants` and `OrdersConstants` (finite id sets, positive
caps, the null values distinct from the rest):

- `SafeAlways`: the inductive invariant `Safe`. The properties alone are not
  inductive: that a number is free at the insert needs to know that a placement at
  `insert` holds the Business row, and that what it computed behind the lock is still
  true. `Safe` therefore adds to the types (`TypeOK`) who holds which lock at which
  stage (`Holders`), what a request knows while it holds it (`Knowledge`), and the shape
  of the committed rows (`Ledger`).
- `TypeCorrect`, `NoDuplicateOrders`, `NumbersWithoutGaps`, `TimelinesAreHonest`,
  `CancellationStands`, `OrdersFitTheOffer`, `EstimatesStayInKitchen`: the properties of
  `orders_race` and `orders_kitchen` with the same definitions.
- `TransactionsImplementBook`: every behaviour of `Orders` is one of `OrderBook`.

- `PausesAreHonoured` (of pauses that last from before the request is sent until it is answered; one that
  begins between the read without the lock and the commit may be missed), `RetriesFindTheirOrder` (of
  the same content, sent after the first attempt committed): what a request in flight may still turn out
  to violate, `Remembered`, is inductive beside `Safe`: a placement past the look at the pause
  was not sent under one that lasted (`Unpaused`), and one that is still before the
  insert did not have its order when it was sent (`Retries`).

The proof has one lemma per group of actions; each shows that the action keeps every
part of `Safe`. The refinement and the action properties follow from `Safe` and one step.

`StorefrontProofs` proves, for any number of editors, compositions, designs, rows and
token values, from `StorefrontConstants` (the defaults are members, `None` is nobody):

- `StorefrontIsSafe`: the inductive invariant `Safe`. That no index fires needs a picture
  of the whole table: row `i` has number `i`, the last row is the draft and the one before
  it is published (`Ranked`); every row descends from an earlier one, and an untouched
  draft from the published row with its very content (`Descent`). That the token works
  needs to know what the editors remember (`Memory`): the token never runs behind what an
  editor saw of the current draft, and where they agree the contents agree.
- `StorefrontTypes`, `StorefrontConstraints`, `StorefrontHistory`, `StorefrontProvenance`,
  `StorefrontImmutability`, `StorefrontTokens`: the six properties of `storefront_versions`.

First, lemmas about the tables the commands produce (`FirstDraftIsGood`, `TouchedIsGood`,
`PublishedRows`); then each command is shown to be one of four table steps taken under an
agreeing token (`Served`, `Step`); the invariant and the properties follow from `Step`.

`ComposerTypes` and `ComposerIsAnEditor`, in the same module, are about `DraftComposer` with any
of the editors as composers: each step is a read, a command with its answer, or a stutter of
`Storefront` with the cache as the memory of that editor. Two things are used, the invariant of
the rows (`ComposerSafe`) and that a saved form carries the token of the cache.

`CustomerProofs` proves of `Checkout` alone `RetriesAreSafe` and `KeysPinContents`, from `CartConstants` and
`CheckoutConstants`, for any menus, visitors, faults and keys. `Honest` looks at every submission
that the server has or may still get (`Sent`): until a refusal speaks against it, all submissions of
one content carry one key and one body (`OneStory`) and the form still says the same
(`FormAgrees`); a key stands for one content (`KeysTellApart`) and for one order (`KeyPerOrder`);
while an answer is awaited, a form that was edited has dropped its key (`Awaiting`).

Of the composition, for any bounds, it proves every safety property of `customer`:

- `RetriesStaySafe`, `KeysStayPinned`: the two above, since the other pages rest.
- `ShownIsAccepted` (`CartAsShownIsAccepted`), by `ShoppingInv`: the picker's choice satisfies the
  groups of the menu it was opened on, of an item that can be ordered from it (`PickIsSound`), and if
  all lines of the stored cart, or of the checkout page's copy, were taken from one menu, each is a line that
  this menu allows at its price (`CartIsSound`, `CopyIsSound`). The browser folds over the lines and the server over the priced
  items: that both folds equal one sum over the positions is proved of the folds themselves
  (`CartFolds`, `PricedFold`), and the sums are compared term by term.
- `RefusalsAreKept` (`RefusedStaysRefused`), by `BoardKnows`: whatever a query, a request or a
  confirmation holds of an order is a status the order has had (`Tells`, `SentIsSound`), and
  statuses only go on (`Onwards`); so what was refused once stays illegal, and nothing that is still to
  arrive speaks of a status from which it was legal (`RefusalIsKnown`).
- `AlertsCountOnce` (`CountedOnce`), by `WatchCounts`; `BoardKeepsTrue` joins the two.
- `PagesMakeOneList` (`PagesAreOneList`), by `PagesAreRead`: of the pages on screen and of those being
  read, each falls, is above the next one, and is above the cursor that the last one left (`PagesFit`);
  whatever matched since the first was asked for and lies above that cursor is on one of them (`ListFits`).
  The cursor falls with every page, so there are no more pages than rows.
- `NoticesGoForAReason` (`OneGoesForAReason`), by `NoticesRise`: the notices on screen rise, and the
  timer is for none later than the first. It is what makes the timeout of a notice that was evicted
  harmless, and it needs the flag and the effect only for their types.
- `PagesAreOfTheirTime` (`PageIsOneOfItsTime`), by `RequestKnows`: an answer on a socket, a
  result in the memo and a part of the document each tell how the restaurant was at some time
  `since` the request began, and every part shows the version of the one first read.
- `CustomerTypes` (`CustomerTypeOK`): type correctness of the eight parts. It is inductive only beside
  the invariants above: a total is a number because the cart's lines are typed, the alert
  is within the orders because it counts them once, a page's rows are numbers of rows because the cursor is.

`DataFacts` holds what these proofs need of data, for every input: that a sum solves its equation and is
bounded by its terms (`SumIsDefined`, `SumIsBounded`), that a fold exists (`FoldExists`) and so does what is
defined by recursion over the numbers (`RecursionUpTo`), that a set of numbers has a descending enumeration
(`DescentExists`), what `RemoveAt` keeps (`RemoveAtKeeps`), when flattened sequences descend
(`FlattenDescends`), and what keeps the places of rows dense (below). A recursive function is a `CHOOSE` among
the solutions of its equation; one induction over the numbers in a set (`InductionOnNat`), not over an
operator, shows that there is one.

`ItemFieldsProofs`, `AccessProofs` and `HoursProofs` prove, each of its desks alone:

- `ImagesAreServed` (the state part of `ImagesServable`): `Stored` adds that ids are never used again, that what the
  upload under way has written is too young for the sweep and has no row yet (`Uploading`), and
  that the object a sweep is about to delete belongs to nobody (`OrphanFound`). `PromotedAreKept`
  follows from one step: the sweep looks at each candidate again behind the lock.
- `MembersAreAdmittedOnce` (`InvitationsStaySound`): `Admission` says of every two invitations what
  the property says of one person, and that whoever accepted is a member.
- `AccountsAreKept` (`AccountsStaySound`): `Sound` adds the locks (`Locks`), that only the last
  token can be redeemed (`OnlyTheLast`) and that the tokens of completed resets are
  spent (`ResetsAreSpent`). The count of failures is a cardinality over the account's trail: one
  lemma says how each kind of entry changes it.
- `MarksAreTrue` (`GapsAreMarked`) needs no more of a state than the zone and the time (`TimeIsKnown`);
  what it rests on is about wall time, for every zone with one change: which instants have a wall time
  (`InstantsAre`), that two rounds of the control center's search find one exactly when there is one
  (`TwoRoundsSuffice`; one round does not, as the mutant shows), and that the server takes the first of them to open,
  the last to close, and the end of the gap where there is none (`WallTimesAreKept`). `GapsAreEarly` is why
  scanning the small hours is enough where the gap of the zone is in them (`GapIsEarly`, a premise of that part of the
  property and an assumption of nothing).
- `SlotsAreTheTimes`: the slots of an interval are its times a step apart, from the lead time to the
  last order, each once and in order.

`WorkspacesProofs` lifts them to the composition: `ImagesStayServable`, `InvitationsKeepSound`,
`GapsStayMarked` and `CacheStaysTheEditor`. `SessionsKeepSound` joins `AccountsAreKept` with an invariant about the tab:
`Untold` says that neither the cached session nor an answer under way, nor an attempt that
may still be cached, is of a session the tab was told is over.

`CatalogKeepsSound`, in the same module, proves `CatalogStaysSound` for any categories, items, titles, groups,
choices and limits, however many commands administrators send at once. The rows of a set are
`Dense` when their places are 0, 1, 2 and so on; three lemmas of `DataFacts` say what keeps them so: a row
that comes last (`PlacedLast`), a row that goes while those behind it move up (`GapIsClosed`), and an order
that names each row once (`ArrangedIsFilled`, where a map onto a set of the same size is one to one).
With them each command of `Catalog` (in `WorkspacesProofs`) and of `ModifierDesk` (in `ItemFieldsProofs`)
takes a sound menu to a sound menu
(`CommandsKeepMenus`, `CommandsKeepModifiers`), provided that it carries no place of its own and only
limits that a group can have. `MenuKnows` and `ModifiersKnow` therefore add to the server's rows what the
dialogs and the commands under way carry; and `ModifiersKnow` that whatever the query, its fetch and the
answer to a reorder hold was sound when the server had it, from which `ReasonIsTrue` follows for what is on
screen. `EditsKeepTheRest` (`EditKeepsTheRest`) needs one thing more: while the change of a category is under
way, the dialog stays as it was submitted (`EditIsAsked`).

`NothingUnseenLeaves` (`NothingUnseenIsSent`) joins three invariants:

- *The item's page*, `TakesTheTree`: as long as the tree has the item, what the form took last from it is
  what the tree says. So a field that a save sends was typed (`TypedIsSent`).
- *The sections* (`StorefrontProofs`), `SectionsKnow`: a draft that the page has read, or that an answer brings, is
  what the server has or an earlier one by its publication and its lock (`Reads`); unless it `strayed`, the
  form was last reset to the draft known, and a publication is asked only of an unedited form
  (`FormIsRead`). So a publication that the server accepts is of the draft the page knew (`ShownIsPublished`).
- *The price* (`ItemFieldsProofs`), `PriceKnows`: what a save carries is what its field is read as, and a field that
  came from the item shows the item's price. Underneath is the arithmetic of digits, for every
  input: the value of digits and of a shifted number (`ValueOverZeros`, `ValueUnderZeros`, `TenToSum`), that the
  digits of a number say it (`DigitsSayTheNumber`), that a text is read as the amount it says
  (`ParsedAsTyped`) and a price that is shown is read as itself (`ShownIsParsed`). `ValueOf`, `DigitsOf` and
  `TenTo` are recursive functions; `RecursionUpTo` gives their equations.

With two saves of others instead of one, TLC had found `PublishedAsShown` false as it was first
stated, for the reason of §4.4: the proof needs `Reads` to order drafts by publication before lock.

Every size and bound that these theorems depend on is a constant of the composition, so they are
not about the instances that TLC runs. What they assume of the constants is what the modules state: that null values
are told from the others (`CounterConstants`, `RoomConstants`, `ShoppingConstants`, `CheckoutConstants`, `NothingIsNoRequest`,
`ComposerAndServer`, `PeopleAndSessions`, `MenusAndModifiers`, `HoursAndPrices`, `ImagesAndSections`, `PagesDiffer` and the assumptions
these name), that bounds are natural numbers, that ids are finitely many, that prices are amounts and digits are
digits (`CartConstants`, `PriceConstants`), that the menus to start from are sound
(`MenuDeskConstants`), and that login is throttled after one failure or later.

Only model-checked, and why:

- `EveryRequestAnswered`, `PersistencePays`, `TrackerCatchesUp`, `BoardCatchesUp`, `NoticesGo` and
  `RequestIsAnswered` are liveness under fairness, which is out of the prover's reach.
- `HoursMeanWhatTheySay` compares what `SelectSeq` and `SortSeq` leave of the intervals of a day. tlapm expands
  neither, and what they return for every sequence is an induction over data. What the intervals rest on, wall
  times and slots, is proved (`WallTimesAreKept`, `SlotsAreTheTimes`).
- `WorkspacesTypeOK` is proved of the composer, the sections and the price (`ComposerTypes`, `SectionsAreTyped`,
  `PriceIsTyped`). The others have orders of rows that `SortSeq` makes in their types, or were not attempted.

## 6. Not modelled, and the plan

Next would be the types of the other desks, those that need no `SortSeq`.

Hazards without a property: the `now` that a placement takes before it waits for the Business
row, and a pause that lapses by it (`orders/service.py:271`, `availability.py:75`). `Orders` has no
clock and `Availability` no placements; joining them would multiply both. A price that a form took
from the answer to a save is not prevented from being sent again (§4): what holds is stated instead.

Left out of a modelled part: the header filtering, canonical origins, structured data and the
development proxy of the storefront's server, texts other than a category's name and a section's heading,
`order_metrics`, the single fields of a theme, the composer's two statements of `get_overview`, the refresh of
`last_used_at`, the projection of audit details, the list of businesses and their creation and
renaming, the form in which an administrator issues a password reset, the design, entitlement
and timezone panels, the version history and its preview pages.

Left out for good: authorization tables, schema validation, image decoding and file I/O,
projections, the markup of pages and the renderer, host-name parsing, the generated client's
formatting, configuration and headers, migrations and scripts. They hold no state, or their
content is formatting.
