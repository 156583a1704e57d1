# TLA+ models of esa-dono-ui

esa-dono-ui is a donation platform for charity streams: donors pay through
Stripe, the money fills a wallet that buys incentives (rewards, poll votes,
goals), auctions sell single items, and staff systems learn of all this through
an outbound message queue.  One Express process (`server/`) works on one SQLite
database through one connection; a React client (`client/`) talks to it.

This directory holds TLA+ modules translated from that code, the configurations
with which TLC checks them, and theorems that TLAPS checks.

    cd tla
    tlc -workers 2 -config WebhookDispatcher_safety.cfg MCWebhookDispatcher.tla
    tlapm WebhookDispatcher_proofs.tla

## What a step is

`server/lib/prisma.ts` gives Prisma one connection, so interactive transactions
run one after the other and each is one step of a model, together with the
checks it makes inside.  A statement outside a transaction is a step of its own:
a route that reads, checks and then writes is two actions with everything else
in between.  An `async` function is cut at its awaits.  Stripe and the endpoints
of Destinations are outside the database: what they do is not undone by a
rollback, and their answers may be late, repeated, out of order or missing.

In the browser React runs one handler at a time, and a handler sees the state of
the render it was made in.  A handler is cut at its awaits too; the answer of a
request is fixed when the server computes it and may arrive late, after other
answers, or never.

## Inventory

| Component | State it keeps | Operations | Talks to | What is hard |
|---|---|---|---|---|
| Outbound webhook queue (`services/webhooks`, destination routes of `routes/admin.ts`) | `WebhookDestination`, `WebhookDestinationSeq`, `WebhookDelivery`; in memory `inflight`, `rerun` | emit, ping, drain, sweep, pause, delete, requeue | every change that emits; endpoints | wakes during drains, crashes between send and save, order under retries |
| Auctions (`services/auction.ts`, `auctionScheduler.ts`) | `Auction`, `Bid`, `AuctionOffer`, `AuctionWin`; the `sweeping` flag | bid, close, offer, settle, advance, skip, cancel, reopen, edit, delete | Stripe sessions and webhooks, email | late and repeated webhooks, payment against cancel, rollback after Stripe answered |
| Events, Channels, slugs (`services/events.ts`, `channels.ts`, `lib/slugs.ts`) | `Event`, `Channel` | create, update, deactivate | routing, Tiltify routing keys | rules that span two tables and several requests |
| Donation routing (`services/routing.ts`) | `Donation.channel_id`, `event_id` | route, assign | Events, outbound queue | announced once, whatever moves later |
| Donation processing (`services/donation.ts`) | `Donor`, `Donation` | process a payment | Stripe webhook, pledges, routing, queue | duplicates, pledge errors swallowed inside the transaction |
| Wallet (`services/spend.ts`, `refund.ts`, balance routes) | `Donor.balance_remaining`, claims, votes, entries, contributions, adjustments | spend, reverse, adjust, sweep, charge back | incentives | checks outside the transaction that writes |
| Pledges and Checkout (`services/pledge.ts`) | `PendingPledge`, `PledgeItem` | create, checkout, fulfil, resolve | Stripe, wallet | stale balance, double checkout, expiry |
| Totals and the overlay (`tiltifyPayload.ts`, `tiltifyApi.ts`, `donationTotals.ts`) | nothing of its own: sums over `Donation` | publish, read over REST | routing, moderation, the queue | one change, several messages; pauses; Channels that move |
| Donor tokens, roles, sessions (`services/auth.ts`, `oauth.ts`, `lib/roles.ts`, `middleware`) | `Donor.magic_token`, `role`, `email_verified`; a cookie and a mark in the browser | mail a link, follow it, sign in, revoke, set a role | email, OAuth | read in one statement, written in another; who vouches for an email |
| Incentive administration (`routes/admin.ts`, `moderator.ts`, `lib/uploads.ts`) | `Reward`, `Poll`, `PollOption`, `FundGoal`, the upload directory | create, edit, retire, delete, upload | queue | old rows read outside the transaction, images unlinked before the row is written |
| Staff pages (`pages/admin`, `pages/moderator`) | a list, a dialog, a form | load, save, remove, act | all staff routes | overlapping handlers, other staff |
| Client cart (`CartContext.tsx`, `CartDrawer.tsx`, `components/incentives`) | cart, Channel, lists | add, edit, merge, switch Channel, revalidate, checkout | REST API | answers of overtaken requests, timers, permalinks |
| Feature flags | `FeatureFlag`, a one-minute cache | read, change | | cache lifetime |
| Metrics, tracing, email, feedback, rate limits, scripts, deployment | none that matters here | | | |

What makes each component correct:

- *Queue*: a message committed with a change is delivered at least once, in
  commit order per Destination; only staff can reorder; a wake is never lost;
  one drain per Destination; every queue drains when its endpoint is healthy.
- *Auctions*: the high bid mirrors the bids; one offer at a time; only a payment
  of the offer that is out sells the item, once; offers go down the ranks; unsold
  means that everybody was asked; a cascade ends.
- *Identity*: an active Event can always route a donation; a slug names one
  thing and does not change while in use; a donation is routed and announced once.
- *Wallet*: the balance is donations less spends plus adjustments, whatever the
  order of requests; one spend is given back at most once; tallies and totals move
  with the money; a donation is clawed back at most once.
- *Pledges*: money is neither made nor lost between the wallet, a Checkout Session
  and a fulfilment; a payment fulfils a pledge once, and one in time does fulfil it.
- *Overlay*: when all messages have arrived, what is shown and the totals are what
  the tables say.
- *Access*: a token that was revoked or replaced lets nobody in; a role comes from
  staff or from the allowlists and a provider that vouched.
- *Incentives*: consumers of messages know the state and the value of an incentive;
  an image that a row names is on disk.
- *Client*: what the donor chose stays; what is posted is what was checked; what a
  staff page shows after a save includes the save.

## Modules

| Module | Models | Remarks |
|---|---|---|
| `WebhookDispatcher` | outbox, drain, timers, retention, staff routes, crashes, outages | the core of the project |
| `WebhookQueue` | what a consumer is promised: an at-least-once FIFO queue per Destination | abstract; `WebhookDispatcher!Queue` maps the tables onto it |
| `WebhookDispatcher_proofs` | theorems about `WebhookDispatcher` | |
| `Auction` | one auction, the scheduler, Stripe, the staff routes | |
| `Auction_proofs` | theorems about `Auction` | |
| `Identity` | Events, Channels, slugs, routing and assignment | |
| `Identity_proofs` | theorems about `Identity` and `Cart` | no name is shared |
| `Wallet` | balances, donations, spends and everything that gives them back | one reward, one poll, one goal |
| `Wallet_proofs` | theorems about `Wallet` | |
| `Pledge` | pledges, Checkout, webhooks and manual donations over the balances | the reward and one vote as the items |
| `Pledge_proofs` | theorems about `Pledge` | |
| `Overlay` | the messages of a donation and the totals, up to the overlay | takes the FIFO queue of `WebhookQueue` as given |
| `Overlay_proofs` | theorems about `Overlay` | |
| `SumTheorems` | sums over finite sets of rows | facts for the proof modules above |
| `Access` | tokens, sign-in, roles, sessions, the wallet page, the donors page | |
| `Access_proofs` | theorems about `Access` and `StaffPage` | no name is shared |
| `Cart` | the donor's cart, lists, drawer and checkout | |
| `Incentives` | the staff routes of one row of one table, its image and its messages | |
| `StaffPage` | the pages of staff | extends `Incentives`, whose requests it sends |
| `MC*` | symmetry and constant sets for TLC | |

### WebhookDispatcher

`dest`, `lastSeq`, `row`, `body` and `due` are the tables (`due` stands for
`next_attempt_at <= now`, `body` for what `messageFailureReason` can tell about a
payload).  `inflight` and `rerun` are the two module-level collections of
`dispatcher.ts`.  `pc` and `job` give the drain promises that are alive: `query`
before the head query, `send` before `deliver`, `save` before the update that
records the outcome, `passEnd` before the `do/while` test.  `waking` holds the
`wakeDispatcher` calls that are due after a commit or a tick.  `requeuing` is the
row that a requeue request has read and is about to write.

| Action | Code |
|---|---|
| `Emit`, `Ping` | `withWebhooks` + `emitWebhookMessage` (builder may throw), `POST /destinations/:id/test` |
| `Wake` | `drainDestination` up to its first await |
| `FindHead`, `Send`, `Save`, `PassEnd` | `drainOnce` and the loop around it |
| `SaveMissingRow`, `DbError` | the drain promise rejects; only `finally` runs |
| `BackoffElapses`, `SafetyTick`, `Sweep` | the clock and the two intervals |
| `SetActive`, `Delete`, `RequeueRead`/`RequeueWrite`, `RequeueFailed` | the staff routes |
| `Crash`, `Outage`, `Recovery` | the process dies and restarts; the endpoint comes and goes |

An endpoint in trouble fails the attempt but may have taken the message, as when
an HTTP answer or a publisher confirm comes too late.  `Init` is a database that
an older version wrote: rows that it marked `FAILED` during an outage have a good
payload and can be requeued.  Destinations differ only in name, and nothing but
`Emit` touches two of them.

### Auction

`bids` is the `Bid` table in order of `created_at`, `offer` the `AuctionOffer`
table by Checkout Session, `current` the `current_offer_id`.  `stripe` is what
Stripe knows of each session and `handled` the sessions whose event the server has
acknowledged.  `listed` says that the running sweep has found the auction due;
`editing` what a `PUT /auctions/:id` request has read.  `first` and `closes` are
history variables.

`Close`, `Advance` and `SendOffer` run inside one transaction with a call to
Stripe in it, hence `RollBack`: the rows stay, the session may exist all the same.
`HandleCompleted` and `HandleExpired` can happen any number of times, in any
order, at any time after Stripe's side of the event.  `CLOSED` is never seen: it
is written and overwritten in one transaction.  A deadline is a flag that passes
(`Deadline`) and that an edit may set back.  Prices and increments are left out;
what is left of `minNextBidCents` is that a bid exceeds the high bid.

### Identity

The variables are the columns.  `UpdateEvent` and `UpdateChannel` take all the
fields of the row that the request leaves behind, so that a request that sets
several fields at once is one step, as in the code.  Slug syntax, reserved words
and name uniqueness are not modelled; a slug that the server derives from a name
is any free slug.  `announced` counts `donation.created` messages.

### Wallet

`spends` holds `RewardClaim`, `PollVote` and `FundContribution` rows in one
sequence; `item` tells the tables apart, and a vote or contribution counts as
`PENDING` until `reversed_at` is set.  `cents` of a claim is what was paid, which
the code does not record, and `refunds` counts the adjustments that gave the row
back; both are only read by properties (and by refunds of votes and contributions,
whose rows do hold an amount).  `tally` joins `quantity_claimed`, `current_cents`
and every option's `votes_cents`.  `adjusted` is the sum of the
`BalanceAdjustment` rows of a donor.

| Action | Code |
|---|---|
| `Donate` | `processDonation`: upsert and credit; a repeated external id rolls back |
| `Claim`, `Vote`, `Propose`, `Contribute` | the four functions of `spend.ts`, each in one transaction |
| `SetStatus` | `PATCH /donations/:id/status` with its clawback |
| `RefundOption`, `RefundGoal` | `refund.ts`, and the deletions that call it |
| `Reprice`, `SetClaim` | `PUT /rewards/:id`, `PATCH /claims/:id` |
| `AdjustRead`/`AdjustWrite`, `SweepRead`/`SweepWrite` | adjust-balance, sweep-credits |
| `ReverseRead`, `ReverseSeen`, then `ReverseClaim`, `ReverseVote` or `ReverseContribution` | reverse-spend: row, then option or goal, then the batch |
| `ModerateRead`, `FindVote`, then `Approve` or `Refuse` | moderation of a custom entry |

The four properties are about rows of several tables: `LedgerBalances` recomputes
the balance from donations, spends and adjustments, `TalliesFollowMoney` and
`PollTotalIsSum` recompute what is shown to the public, `ClawedBackOnce` follows a
donation through its statuses.  They hold although single checks of the staff
routes are stale when they write, because every write is a difference in one
transaction with its audit row.  What does not hold is the finding, and two things
the code only checks at the moment of reading: a balance can become negative when a
donor spends between the read and the write of an adjustment or sweep, and an
option's votes can count although the option is not active.

### Pledge

`order`, `cart`, `status`, `discount`, `by` and `lapsed` are the `PendingPledge`
rows, `pc`, `signedIn` and `seen` the `POST /api/pledge` request that works on one
(created, wallet read, priced), `stripe`, `charge` and `payer` its Checkout
Session.  `donations` and `claims` are the tables; `credit` of a donation is what
it added to the wallet, and `cents` of a claim what it took, both at the moment of
writing.

A payment may arrive by webhook (`Webhook`) any number of times, or by hand
(`Manual`) with the token of any pledge, or of none: then the newest pledge with
the payer's email is taken (`Resolve`).  `Process` is `processDonation`, one
transaction.  Inside it every statement of the fulfilment may fail and is caught
(`faults`): whatever it had written by then is committed with the rest.  An item
is taken when its incentive is open and the balance covers it; staff open and
close incentives at any time, so any affordable part of the cart may come out
(`Takes`).  The price of the reward changes between pledge and payment.

### Overlay

Everything that publishes runs in one transaction with its messages, hence one
action per route: `Record` (any donation), `Assign`, `SetStatus`, `SetHidden`,
`MoveChannel`, `Pause`, `Resume`.  `queue` is the rows of one TILTIFY Destination
in order; `Deliver` may deliver the head again.  `Display` is what a consumer does
with a donation, as `docs/prd/0002` describes it for esa-layouts-v2 (a donation it
shows that becomes "Anonymous" goes), and is the one thing that is not code of this
repository.  `missed` notes what changed during a pause: then the queue is told
nothing, by design.

### Access

Tokens are numbers in the order in which they are made.  A request is let in by
one statement (`Authenticate`, `Holder`) and acts by another (`Serve`,
`Administers`); `AskLink`/`SendLink` are the two statements of
`requestTokenByEmail`.  `SignIn` is a callback with a provider's answer: Google and
Discord say that an email is verified, Twitch does not.  `Allowed` are
`ADMIN_EMAILS` and `MODERATOR_EMAILS`.  The browser has the cookie, the mark in
`localStorage` and the wallet page; the donors page of staff keeps the donor it has
selected, the wallet in its panel, and the openings whose answers are on the way.

### Cart

`listed` and `left` are the server's lists; `asked` the answer of a background
load on its way; `shown` and `known` what the page has.  `run` holds what each
`runCheckout` has captured: cart, Channel and acknowledgement of the render in which
it was clicked.  `timer` are the amount fields whose debounced edit is due, `focus`
the field that is being typed in, `followed` the permalinks already applied.
Amounts and labels are left out: no property is about them.
`CartInv` is what the proofs rest on.

### Incentives and StaffPage

`Incentives` follows one row of one table (`kind`), because what can go wrong is
between requests for one row.  A request is a job: `Insert`, `ReadFirst`, `Unlink`,
`Replace`, `Count`, `ReadImage`, `DeleteRead` and `DeleteImage` are the statements
that routes are made of, and there is a definition for each route, which says which
statements it has and what it tells.  `told` is what a consumer of `incentive.*`
messages knows.  `crossed` is a history variable: a request that had read an older
row than the one it writes, or (for images) one whose form shows an older row.

`StaffPage` adds the browser: `shown` is the list, `dialog` and `draft` the form.
There is one definition for each of 16 pages (two more only load lists), made of the handlers that the pages
share (`Save`, `Remove`, `Act`, `SendImage`, ...), because they differ in which
handlers they have and in what disables a button.  `Listed` is where every save
ends: the list arrives and *a* dialog closes, whichever is open by then.
`OtherStaff` sends requests with a form that is up to date.  A page may be left and
opened again (`Reopen`); requests go on, and what they set on a page that is gone is
lost.  The name of an uploaded file is a random UUID, so an upload takes an image that
no form, row or list names (`Unused`).  `StaffInv` is what the proofs rest on.

## Runs

| Run | Checks | Bounds | Shows |
|---|---|---|---|
| `dispatcher_safety` | `TypeOK`, `SingleFlight`, `NoOvertaking`, `NothingLost`, `NoLostWake`, `ImplementsQueue` | 1 Destination, 3 rows (1 legacy), 2 drain promises, 2 faults, 2 requeues | the safety of the queue and that it implements `WebhookQueue` |
| `dispatcher_live` | `QueueDrains` | 1 Destination, 2 rows, 1 drain, 2 faults, 1 requeue | a stall ends by itself |
| `auction_safety` | `HighBidMirrors`, `OneLiveOffer`, `OfferMirrorsStripe`, `SoldOnce`, `CascadeInOrder`, `UnsoldMeansExhausted`, `SettledIsFinal` | 3 donors, bids to 3, 3 sessions, 2 closes, 1 fault | bidding and cascade, once reopened |
| `auction_live` | `CascadeEnds`, `PaymentSettles` | 2 donors, bids to 2, 3 sessions, 1 close, 1 fault | the scheduler and Stripe carry an auction to its end |
| `identity_safety` | `TypeOK`, `ActiveEventRoutable`, `SlugsUnique`, `AnnouncedOnce`, `RoutedSoundly` | 2 Events, 3 Channels, 5 slugs, 2 donations | the identity rules under every order of requests |
| `wallet_safety` | `LedgerBalances`, `TalliesFollowMoney`, `PollTotalIsSum`, `ClawedBackOnce` | 2 donors, 1 donation, 2 spends, 2 staff requests, 2 prices, a listed option and a write-in | the books agree under every interleaving |
| `wallet_refunded` | `RefundedOnce`, violated | the same | the finding |
| `pledge_safety` | `MoneyConserved`, `ChargeSound`, `PaymentFulfilsOnce`, `PaidMeansFulfilled` | 2 pledges, 2 donors, 1 manual donation, 2 prices, 1 failing statement | every order of creation, checkout, payment, repetition, expiry and other spending |
| `overlay_safety` | `InStep`, `NativeInStep` | 2 donations, 2 Channels, 2 Events, 3 changes, 3 messages | the overlay agrees with the tables once messages have arrived |
| `access_safety` | `DeadTokensStayDead`, `ActsAsGranted`, `PanelShowsSelected` | 2 donors (1 allowlisted), 2 tokens, 1 request, 1 staff change | links, sign-ins, donations, revocations and roles in every order |
| `cart_safety` | `EditsStayInCart`, `PostsWhatItChecked`, `OneChannel`, `SelectionKept` | a reward of 2 units and a vote in 2 Channels, 1 checkout, 1 change on the server | a cart under background loads, permalinks, timers and a checkout |
| `staff_safety` | `UncrossedInStep`, `ShowsOwnSave` | 18 pages, 7 tables, 2 requests at once, 3 in all, 2 images | overlapping handlers and other staff on every page |

Why the bounds are enough.  *Dispatcher*: Destinations share nothing but the
commit of an emit, so one is enough for the order and drain properties; three rows
give a head, a row that could overtake it and one that arrives during the drain;
two promises are what a broken single-flight would start; two faults combine a
crash with an outage.  The proofs hold for any number of Destinations, rows and
drains.  *Auction*: three donors make a cascade with a middle; three sessions allow
one offer per rank, or an orphan session and a retry; two closes are one reopen.
Where a step needs a session and none is left, the behaviour ends there, which is
why the auction runs do not look for deadlocks; a settled or deleted auction stops
anyway.  *Identity*: a primary can move between two Events while a third Channel
takes its place; five slugs let every row have one of its own.  *Wallet*: the
hazards are pairs of requests around one spend, so two staff requests in flight and
two spends (of one unit or vote each, or two units of one claim) are enough to
order a read, another actor and a write in every way; a price that differs from
the amounts tells a claim's worth from its count.  *Pledge*: two pledges are what
one payment can confuse (by token and by email), two donors what a payer and a
signed-in donor can be; amounts are chosen so that a cart is below, at and above
the minimum charge, and coverable with and without its top-up.  *Overlay*: two
donations of different worth in two Channels give every sum its own value; three
changes are a hide between two moves, or a pause around one.  *Access*: one request
and one browser against staff, links and sign-ins; two tokens are an old and a new
one.  *Cart*: a shop of two Channels with one item in each is the least that can be
mixed.  *Staff*: an upload, the save that uses it and a third request; the
third request against two overlapping ones of the same row.

The wallet, pledge, auction and cart runs do not look for deadlocks: donors and
staff may have nothing left to do within the bounds, and nothing waits for anybody.
In the other runs something is always possible (a timer, a repeated read, leaving a
page), so TLC's deadlock check is on.

Each property has a mutant: an operator next to the definition it replaces, with
the mistake that the property is there to catch (`IsHead_DueOnly` is the head query
of the code before ADR-0007, `Credit_Gross` credits the shipping of a payment
to the wallet, `RevokeToken_Expires` ends a token only until the next donation, for instance).

### Fairness

`WebhookDispatcher!Fairness` is weak fairness on what the process does alone: a
promise runs to its next await (Node's event loop, and both transports time out),
a committed caller reaches its wake, the clock advances, the safety interval
fires.  Staff, traffic, faults and the endpoint have none: `QueueDrains` assumes a
healthy endpoint from some time on instead.  `Auction!Fairness` is weak fairness
on the scheduler's interval and on Stripe: it expires sessions that nobody pays
and repeats an event until it is answered with 200.  `PaymentSettles` counts a
withdrawn offer (skip, cancel) as an answer, because the code does.  The other
modules have no fairness: donors, staff and browsers need not do anything.

## Finding

`wallet_refunded`: two reverse-spend requests that both read a claim before either
writes give its money back twice (`routes/admin.ts:701-750`; votes, contributions
and the rejection of custom entries have the same gap).

## Divergences

What a document, a comment or the interface says and the models show to be
otherwise.  Where a definition states the claim it is named; no run checks it.

Queue, auctions, identity:

- `WebhookDispatcher!OnlyFailedRequeued`.  "Only FAILED deliveries can be requeued"
  (`routes/admin.ts:1682`): the single-row route checks in one statement and writes
  by id in another, so a row that was delivered meanwhile is put back.
- `Auction!CancelledOwesNothing`.  "Nothing has been charged pre-payment under this
  model, so cancellation never needs to refund anything" (`services/auction.ts:317`):
  a bidder can pay before the cancel, and the webhook arrives after it.
- `Auction!OneOfferPerCascade`.  "any stale per-bid statuses (e.g. OFFERED) don't
  matter" (`services/auction.ts:347`), "rank stamped at close: ... collapsed to one
  bid per donor" (`schema.prisma:332`): ranks survive cancel and reopen, and the next
  cascade can offer the auction to one donor twice, the second time at an old bid.
- `Identity!PrimaryIsOwn`.  "Must be one of `channels`" (`schema.prisma:78`): the
  primary Channel of an inactive Event can move to another Event (`channels.ts:108`).
- A PUT of an auction takes the deadline and prices when the auction was open as it was
  read (`routes/admin.ts:1263-1284`); a close in between keeps the edit.

Money:

- `Pledge!TotalsAreMoneyHeld`.  A pledge that the wallet covers gets a donation row of
  its total, "the wallet spend" (`services/pledge.ts:505-507`), with the status that
  the totals count as "money the charity holds" (PRD-0002 E7): it is counted again
  although the wallet was filled by donations that count already.
- The transaction of that checkout does not look at the pledge's status
  (`services/pledge.ts:508`); it is sound only because nothing else can fulfil the
  pledge before the request has answered, unless staff enter a donation by hand for it.
- "EXPIRED: Checkout session expired without payment" (`StaffHelp.tsx:456`): the status
  is never written; and FULFILLED, "all items processed" (455), is also set when items
  were skipped.
- "Delete option — removes the option and refunds all vote balances" (`StaffHelp.tsx:263`):
  the moderator route deletes the row, refunds nothing, and fails when there are votes.

Overlay:

- `Overlay!EventTotalsInStep`.  Totals are "published for the Channel and its Event
  whenever a total changes" (PRD-0002 T7): for a donation whose Channel has moved, only
  the Event of now is told, and the one that the donation belongs to keeps its old total.
- What changes while a TILTIFY Destination is paused is never sent afterwards.

Sign-in:

- "The magic link (emailed on every donation)" (`PledgeReturn.tsx:46`): a donor whom
  staff made, or whose token was revoked, has no token and is mailed `token=null`.
- A logout whose request fails keeps the cookie and clears the mark; an answer that was
  on its way marks the browser as signed in after a logout.
- On the donors page two openings that overlap show one wallet while the buttons act on
  the other donor; freezing sends the opposite of what the panel shows.

Cart:

- `Cart!NeverMixed`.  "A cart therefore can never mix incentives from two different
  channels" (`CartContext.tsx:162-163`): a permalink adds its item even when the switch
  it asks for is cancelled, and an item that has left the lists counts as shared.
- "skip anyway" needs two clicks: the handler runs with the acknowledgement of its own
  render (`CartDrawer.tsx:146-149`).
- A revalidation that fails leaves the drawer "checking" until it is reopened; what is
  added while a checkout posts is cleared without having been sent
  (`CartContext.tsx:734`); a timer can put back an amount that a checkout has cleared;
  a lost answer leaves cart and pledge, and "would create a duplicate pledge" (730).

Staff pages:

- The messages of a PUT compare with a row read before the transaction: "incentive.enabled:
  admin.ts PUT (is_active false→true)" (ADR 0005) is not told, or is told by a request
  that did not change it, when two overlap.  Moderator routes tell nothing at all.
- A form that was opened before another save of the same row writes the old image back
  after its file has been unlinked.
- An upload that ends after another dialog was opened lands in that dialog's form; a
  slow save closes whichever dialog is open; a reload that fails after a save says "Save
  failed"; of overlapping reloads the last to arrive wins, however old.
- `AdminDestinations` never sends the secret of an edit ("leave blank to keep current",
  597), and an optional field that is emptied is left as it was.
- `AdminAuctions` loads `/events` into its list of Channels (95).

## Proofs

TLAPS checks the theorems of eight modules for all values of the constants: any number
of Destinations, rows, drains, donors, bids, sessions, Events, Channels, donations,
pledges, spends, staff requests, items, checkouts, pages, images, faults and reopenings.  What they assume of constants
is named in the modules and evaluated by TLC (`ConstantsAssumption`, `NoneAssumption`,
`IncentivesAssumption`, `StaffAssumption`):
bounds and amounts are naturals, `Allowed` maps donors to roles, `None` is no row, and

- `"none" \notin Donor` (`Auction`): it stands for a null `current_bidder_id`;
- the options of the poll are finitely many (`Wallet`): its total is a sum over them;
- `Carts \subseteq Cart` (`Pledge`): a cart is a record of the request's fields;
- a donation is neither a Channel nor an Event (`Overlay`): ids are UUIDs, and a message
  names one;
- the incentives are finitely many (`Cart`): a merge puts the new ones in some order;
- `Nothing` is no image and no form (`Incentives`): it stands for a null `image_url` and
  for a row that is not there.

No theorem assumes anything of a state.  An invariant that a run checks is seldom
inductive; the strengthening stands in the component's module, and TLC has checked it on
the instance of the component's run before it was proved.

*Sums.*  Balances, tallies and totals are `MapThenSumSet` of the community modules: a
recursive function that chooses its next element.  The library's induction theorems take
an operator, which the provers cannot instantiate, so `SumTheorems` does induction by a
smallest counterexample instead: the family of subsets for which a fact fails has a
member of least size, and taking one element off that member gives a contradiction
(`SubsetInduction`).  In that way it shows that the recursive function exists
(`SumsExist`), that the choice does not matter (`TotalRemove`), and what a change of one
row, a new row, a union or a difference does to a total.

*Dispatcher.*  `TypeCorrect` comes first.  `SingleFlight` is not inductive: that a
second drain does not start follows from the first one's key in `inflight`, so
`FlightInv` adds that a busy drain holds the key of its Destination.
`NoOvertaking`, `NothingLost` and `AttemptOwnsRow` are proved together as
`QueueInv`: between the head query and the update the drain acts on a snapshot, so
`AttemptInv` says what is still true of it (its row waits, nothing older waits
that staff did not put back, the outcome it is about to record is what happened),
and `RowInv` that row numbers come from the counter.  `SingleFlight` is what makes
`AttemptInv` survive the steps of other drains.  `NoLostWake` says that a due head has
its Destination in `inflight`, which is too little at the end of a pass: `WakeInv`
says that the drain behind the key will still look at the head (`Looking`) or has a
`rerun` to do, and that when a row older than the one being tried waits, because staff put
it back, its wake is on the way before this attempt fails and the pass ends.
`Implements` is the refinement: initial states map to initial states, and every action
maps to a step of `WebhookQueue` or to a stutter.  It uses `QueueInv`, which is what
makes a delivery of the drain the delivery of the abstract head.

*Auction.*  `SaleInv` holds `HighBidMirrors`, `OneLiveOffer`, `OfferMirrorsStripe` and
`SoldOnce` together, with `OfferInv`: `current` is empty unless a payment is awaited, and
an offer is for a bid that exists.  They need each other: only because the live offer is
the one the auction points to can a webhook of another session do no harm.
`SettledIsFinal` is an action property from the same invariant.  `CascadeInv` is about
who is asked: bids rise, so a donor's last bid is the best (`BidInv`); sessions are
opened in order (`SessionInv`); and in the first cascade the ranks are those of the close
and offers went out rank by rank, all but the last of them closed (`RankByRank`).
`CascadeInOrder` and `UnsoldMeansExhausted` follow by what a rank is: one more than the
number of better best bids, so ranks differ and leave no gap.

*Identity.*  `ActiveEventRoutable`, `SlugsUnique` and `AnnouncedOnce` are inductive
with type correctness; the last needs `DonationInv`, that a donation that is not
recorded yet has been nowhere.  `SlugFixedWhileActive` and `RoutedSoundly` are
properties of steps from those invariants.

*Wallet.*  `WalletInv` joins `LedgerBalances`, `TalliesFollowMoney` and `PollTotalIsSum`
with `OptionInv` (votes are for options that were proposed) and `RequestInv`: of what a
staff request has read, the amount of a vote or contribution and the option of a vote are
still true when it writes.  That is all the books need of a stale read.  A step changes
one donor, one row or one tally, and the theorems on sums say what that does to each
side.  `ClawedBackOnce` is inductive with the types: a row that has a clawback takes no
other status (`MayBecome`).

*Pledge.*  `PledgeInv` joins `MoneyConserved` with `DonationInv` (what was taken belongs to
a donation, so a new donation has taken nothing yet), `StageInv` (how row, request, session
and payment go together) and `PriceInv`: a session never costs less than the row its
payment is compared with, which is what makes a payment in time enough
(`PaidMeansFulfilled`).  The fulfilment takes any affordable part of the cart with a
failing statement anywhere; its money is proved once, for all of them.

*Overlay.*  `InStep` speaks of an empty queue only.  `NewsInv` says what holds on the
way there: for each donation and each total, either the last message about it that waits
says what the tables say now, or none waits and the overlay is in step.  A later message
overrides an earlier one and a repeated delivery of the head changes nothing that a later
message does not set.  `RouteInv` ties routes to Channels that may have moved.
`NativeInStep` is proved with them: what a PATCH publishes depends on
the row that its own transaction reads.

*Access.*  Type correctness goes with `RequestInv`, that a request under way is one of a
donor with a row, without which mailing a link could not be typed.  `DeadTokensStayDead`
needs `TokenInv`: tokens of rows are at most `issued`, no two donors share one, and what
has ended is in no row; `TokenSteps` shows that no step does more to tokens than one
`Rotate`.  `ActsAsGranted` needs `GrantInv`: a stored role is at most what staff gave, and
a verified email was vouched for.  `PanelShowsSelected` needs `PanelInv`: without an
overlap only the wallet of the selected donor is on its way.

*Cart.*  `CartInv` goes with type correctness, whose hardest part is the merge of two
lists: what stays keeps its order and nothing is listed twice.  `FocusInv` says that only
a field that is being typed in has a timer, and none while the drawer is open;
`EditsStayInCart` needs it, since a Channel switch and a removal take items from the cart.
`SightInv` is about what the page sees: once it has loaded the lists hold the whole cart
but for what is `lost`, and what is not shared, linked or lost is of the selected Channel
*also while a switch is pending*; without the last part `OneChannel` is not inductive.
`PostsWhatItChecked` carries over from the answer of a revalidation to the post, because a
run works with what its own click captured.  `SelectionKept` is a property of the steps
that merge, proved from lemmas on what `Only` keeps of a sequence.

*Incentives and StaffPage.*  `StaffInv` has seven parts.  `RowInv` gives the row one
history: whatever a request has read, as the prior row or as the list it answers with, is
of an older revision or is the row itself (`Older`), and what it wrote is no newer than
what it lists.  `WindowInv` says the same of the list and the form of the page.
`UploadInv` says that the file of an upload is named by no other form, row or list, so
that no other request can unlink it, and `PictureInv` that every form that could still
replace the row without crossing anybody has its image on disk, but for the moment between
unlinking the old one and writing.  Where the row has no image nothing does (`PlainInv`),
and a page edits only its own tables (`PageInv`).  `ToldInv` is the part of
`UncrossedInStep` about messages.  The routes are first reduced to a few kinds of
step (a row inserted, replaced or removed, an image unlinked, a request that only moves
on, a refusal), and the handlers of pages to a few more (a request sent, a list
arrived, an upload ended, a page left); each part is then proved of each kind.
`ShowsOwnSave` is a property of steps: but for leaving the page, only `Listed` ends a
handler whose answer was "listed", and its list is no older than its own write.

What the proofs showed about the models.  `UploadInv` could not be proved while an upload
could take a name that a stale form still held; the code draws a random one
(`lib/uploads.ts:69`), and `SendImage` now says so.  It also needed `ImageStored` to drop
the image when its page has been left, as React does with the state of a page that is gone.
`Cart` needed its items to be finitely many, without which a merge has no order to list
them in, and writes its filter as a function on prefixes (`Only`) that the provers can
reason about.  Every run passes as before and every mutant is still caught.

Only model-checked: every liveness property (`QueueDrains`, `CascadeEnds`,
`PaymentSettles`), because liveness under fairness and `ENABLED` are out of the prover's
reach.  Every invariant and every action property of a passing run is stated by a
theorem.

## Not modelled, and why

Message payloads and email are data or wording; the models keep whether a payload
can be built and parsed, and of a Tiltify donation what an overlay tells apart.  Who
may bid (verified, has donated, not frozen) changes at any time and is left open.
`resendCurrentOfferTx` changes nothing.  Connection caching of `amqpPublish` is
folded into the outcome of an attempt.  Name uniqueness, slug syntax, reserved slugs
and the matching of blocked words are validation.  The cache of feature flags lasts a
minute and no property here is about who reads a flag.  The OAuth state cookie is
left out, and so are rate limits.  Of the client, layout, dashboards, help, the
polling auction page and page-view tracking keep no state that a property is about.
Metrics, tracing, feedback, scripts and deployment neither.  Amounts typed into the
cart are left out; `Pledge` has the money.  `Incentives` has one row, so two rows that
come to share an image (a create that was clicked twice) are not seen there.

## Plan

What is left, in the order of its worth:

1. Two rows in `Incentives`, so that images that come to be shared can be seen, with
   `UploadInv` and `PictureInv` restated for a set of rows.
2. The single-row requeue route (`routes/admin.ts:1688`): a property that bounds what it
   can do to the order of a queue.
3. Larger instances of the client models, where TLC's time allows.
