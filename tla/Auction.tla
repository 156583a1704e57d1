------------------------------- MODULE Auction -------------------------------
(***************************************************************************)
(* One auction from its first bid to its settlement: bidding, the close by *)
(* the scheduler or by staff, and the cascade of Stripe Checkout offers    *)
(* that walks down the ranked bids until somebody pays                     *)
(* (services/auction.ts, services/auctionScheduler.ts, the auction branch  *)
(* of routes/webhook.ts and the auction routes of routes/admin.ts and      *)
(* routes/moderator.ts, which are the same).                               *)
(*                                                                         *)
(* Every *Tx function runs in one transaction of a single-connection       *)
(* database and is one step.  Stripe is outside: a session it opened stays *)
(* open when the transaction that asked for it rolls back, and its         *)
(* webhooks come late, out of order and more than once.                    *)
(***************************************************************************)
EXTENDS Naturals, Sequences, FiniteSets

CONSTANTS
    Donor,
    MaxCents,     \* bound: the highest bid anybody makes
    MaxSessions,  \* bound: Checkout Sessions ever opened
    MaxCloses,    \* bound: times the auction is closed with bids
    MaxFaults     \* bound: failed or rolled-back transactions and restarts

ASSUME ConstantsAssumption ==
    /\ MaxCents \in Nat /\ MaxSessions \in Nat /\ MaxCloses \in Nat /\ MaxFaults \in Nat
    /\ "none" \notin Donor          \* it stands for a null current_bidder_id

Session == 1..MaxSessions
None == 0
NoOffer == [bid |-> None, rank |-> None, status |-> "NONE"]

VARIABLES
    status,   \* Auction.status, "DELETED" when the row is gone
    active,   \* Auction.is_active
    ended,    \* ends_at has passed
    bids,     \* the Bid rows in order of created_at; rank None is null
    high,     \* current_bid_cents and current_bidder_id
    offer,    \* the AuctionOffer of each session, NoOffer when it was rolled back
    current,  \* current_offer_id, as its session
    win,      \* the AuctionWin, as its session
    stripe,   \* what Stripe knows of each session
    handled,  \* sessions whose webhook was answered 200
    listed,   \* the running sweep found this auction due
    editing,  \* what an edit request has read: the auction is open, or not
    closes,   \* history: closes with bids
    first,    \* history: the first session of the running cascade
    faults    \* faults so far

row == <<status, active, ended, bids, high, offer, current, win>>
vars == <<row, stripe, handled, listed, editing, closes, first, faults>>

Bid == [donor : Donor, cents : 1..MaxCents, rank : Nat,
        status : {"ACTIVE", "OUTBID", "OFFERED", "WON", "PASSED"}]
Statuses == {"OPEN", "AWAITING_PAYMENT", "SETTLED", "UNSOLD", "CANCELLED", "DELETED"}

TypeOK ==
    /\ status \in Statuses
    /\ active \in BOOLEAN /\ ended \in BOOLEAN /\ listed \in BOOLEAN
    /\ bids \in Seq(Bid)
    /\ high \in [cents : 0..MaxCents, donor : Donor \cup {"none"}]
    /\ offer \in [Session -> [bid : Nat, rank : Nat,
                              status : {"NONE", "SENT", "PAID", "EXPIRED", "SKIPPED"}]]
    /\ current \in 0..MaxSessions /\ win \in 0..MaxSessions
    /\ stripe \in [Session -> {"unused", "open", "paid", "expired"}]
    /\ handled \subseteq Session
    /\ editing \in {"none", "open", "other"}
    /\ closes \in Nat /\ first \in Nat /\ faults \in 0..MaxFaults

Init ==
    /\ status = "OPEN" /\ active \in BOOLEAN /\ ended = FALSE
    /\ bids = <<>>
    /\ high = [cents |-> 0, donor |-> "none"]
    /\ offer = [s \in Session |-> NoOffer]
    /\ current = None /\ win = None
    /\ stripe = [s \in Session |-> "unused"]
    /\ handled = {}
    /\ listed = FALSE /\ editing = "none"
    /\ closes = 0 /\ first = 1 /\ faults = 0

Fault == faults < MaxFaults /\ faults' = faults + 1

-----------------------------------------------------------------------------
(* Bidding.                                                                *)

\* Mutant: a bid may equal the high bid.
Beats_Equal(cents) == cents >= high.cents

\* minNextBidCents: prices and increments are positive and otherwise data, so
\* what is left of them is that a bid exceeds the high bid.
Beats(cents) == cents > high.cents

\* placeBidTx.  Who is verified, has donated and is not frozen changes at any
\* time, so any donor may be the next to bid, except the high bidder.
PlaceBid(d, cents) ==
    /\ status = "OPEN" /\ active /\ ~ended
    /\ high.donor # d
    /\ Beats(cents)
    /\ bids' = Append([i \in DOMAIN bids |->
                          IF bids[i].donor = high.donor /\ bids[i].status = "ACTIVE"
                          THEN [bids[i] EXCEPT !.status = "OUTBID"] ELSE bids[i]],
                      [donor |-> d, cents |-> cents, rank |-> None, status |-> "ACTIVE"])
    /\ high' = [cents |-> cents, donor |-> d]
    /\ UNCHANGED <<status, active, ended, offer, current, win, stripe, handled, listed,
                   editing, closes, first, faults>>

-----------------------------------------------------------------------------
(* The cascade.                                                            *)

\* rankBids sorts by amount, then by age.
Better(i, j) ==
    \/ bids[i].cents > bids[j].cents
    \/ bids[i].cents = bids[j].cents /\ i < j

\* Mutant: rankBids keeps every bid instead of one per donor.
Best_Every == DOMAIN bids

\* One bid per donor, the highest.
Best == {i \in DOMAIN bids : \A j \in DOMAIN bids :
            bids[j].donor = bids[i].donor => j = i \/ Better(i, j)}

RankOf(i) == 1 + Cardinality({j \in Best : Better(j, i)})

\* The ranks closeAuctionTx stamps; a bid that is not ranked keeps what it has.
Ranked == [i \in DOMAIN bids |->
              IF i \in Best THEN [bids[i] EXCEPT !.rank = RankOf(i)] ELSE bids[i]]

WithStatus(bs, i, st) == [bs EXCEPT ![i] = [@ EXCEPT !.status = st]]

Marked(s, st) == [offer EXCEPT ![s] = [@ EXCEPT !.status = st]]

NextSession(s) == stripe[s] = "unused" /\ \A t \in Session : t < s => stripe[t] # "unused"

\* sendOfferTx for bid b, in a transaction that left the offers os and the bids bs.
SendOffer(os, bs, b, rank) ==
    \E s \in Session :
        /\ NextSession(s)
        /\ stripe' = [stripe EXCEPT ![s] = "open"]
        /\ offer' = [os EXCEPT ![s] = [bid |-> b, rank |-> rank, status |-> "SENT"]]
        /\ bids' = WithStatus(bs, b, "OFFERED")
        /\ status' = "AWAITING_PAYMENT" /\ current' = s
        /\ UNCHANGED <<active, ended, high, win, faults>>

\* The transaction rolls back: Stripe answered with an error, or it opened the
\* session and then Prisma's time limit or a crash came before the commit.
RollBack ==
    /\ Fault
    /\ UNCHANGED row
    /\ \/ UNCHANGED stripe
       \/ \E s \in Session : NextSession(s) /\ stripe' = [stripe EXCEPT ![s] = "open"]

\* Mutant: the cascade goes on with the rank after the next.
Follows_Two(r) == r + 2

Follows(r) == r + 1

\* advanceToNextRankTx, after the offer of session s was closed as `st`.
Advance(s, st) ==
    LET os == Marked(s, st)
        bs == WithStatus(bids, offer[s].bid, "PASSED")
        next == {b \in DOMAIN bids : bids[b].rank = Follows(offer[s].rank)}
    IN  \/ \E b \in next : SendOffer(os, bs, b, Follows(offer[s].rank))
        \/ /\ next = {}
           /\ offer' = os /\ bids' = bs
           /\ status' = "UNSOLD" /\ current' = None
           /\ UNCHANGED <<active, ended, high, win, stripe, faults>>

\* Mutant: the status is not checked again inside the transaction.
Closable_Listed == status # "DELETED" /\ current = None

Closable == status = "OPEN"

\* closeAuctionTx.
Close ==
    /\ Closable
    /\ \/ /\ bids = <<>>
          /\ status' = "UNSOLD"
          /\ UNCHANGED <<active, ended, bids, high, offer, current, win, stripe, closes, first, faults>>
       \/ /\ \E b \in Best : RankOf(b) = 1 /\ SendOffer(offer, Ranked, b, 1)
          /\ closes' = closes + 1
          /\ first' = current'
       \/ bids # <<>> /\ RollBack /\ UNCHANGED <<closes, first>>

\* The offer a webhook or a staff request is about.
IsCurrent(s) == s = current /\ offer[s].status = "SENT"

-----------------------------------------------------------------------------
(* The scheduler.                                                          *)

Due == status = "OPEN" /\ active /\ ended

\* runAuctionCloseSweep lists what is due ...
SweepList ==
    /\ ~listed
    /\ Due
    /\ listed' = TRUE
    /\ UNCHANGED <<row, stripe, handled, editing, closes, first, faults>>

\* ... and closes each in a transaction that checks the status only.
SweepClose ==
    /\ listed /\ listed' = FALSE
    /\ \/ Close
       \/ ~Closable /\ UNCHANGED <<row, stripe, closes, first, faults>>
    /\ UNCHANGED <<handled, editing>>

-----------------------------------------------------------------------------
(* Stripe and its webhooks.                                                *)

Pay(s) ==
    /\ stripe[s] = "open"
    /\ stripe' = [stripe EXCEPT ![s] = "paid"]
    /\ UNCHANGED <<row, handled, listed, editing, closes, first, faults>>

Expire(s) ==
    /\ stripe[s] = "open"
    /\ stripe' = [stripe EXCEPT ![s] = "expired"]
    /\ UNCHANGED <<row, handled, listed, editing, closes, first, faults>>

\* settleWinTx.
Settle(s) ==
    /\ offer' = Marked(current, "PAID")
    /\ bids' = WithStatus(bids, offer[current].bid, "WON")
    /\ win' = s
    /\ status' = "SETTLED" /\ current' = None
    /\ UNCHANGED <<active, ended, high>>

\* Mutant: the session of the event is not compared with the current offer's.
Concerns_Any(s) == current # None

\* Mutant: the session id is compared with the id of the offer.
Concerns_OfferId(s) == FALSE

\* The event is about the offer that is out; otherwise it is stale or a duplicate.
Concerns(s) == IsCurrent(s)

\* checkout.session.completed reaches the webhook route, perhaps again.
HandleCompleted(s) ==
    /\ stripe[s] = "paid"
    /\ IF Concerns(s) THEN Settle(s) ELSE UNCHANGED row
    /\ handled' = handled \cup {s}
    /\ UNCHANGED <<stripe, listed, editing, closes, first, faults>>

\* checkout.session.expired: advanceCascadeTx.  A rolled-back transaction is
\* answered 500, and Stripe retries.
HandleExpired(s) ==
    /\ stripe[s] = "expired"
    /\ \/ /\ Concerns(s)
          /\ \/ Advance(current, "EXPIRED") /\ handled' = handled \cup {s}
             \/ RollBack /\ UNCHANGED handled
       \/ /\ ~Concerns(s)
          /\ handled' = handled \cup {s}
          /\ UNCHANGED <<row, stripe, faults>>
    /\ UNCHANGED <<listed, editing, closes, first>>

Webhook(s) == HandleCompleted(s) \/ HandleExpired(s)

-----------------------------------------------------------------------------
(* Staff.                                                                  *)

ForceClose == Close /\ UNCHANGED <<handled, listed, editing>>

\* skipCurrentOfferTx; the skipped session stays payable.
SkipOffer ==
    /\ current # None /\ IsCurrent(current)
    /\ Advance(current, "SKIPPED") \/ RollBack
    /\ UNCHANGED <<handled, listed, editing, closes, first>>

\* Mutant: a settled auction can be cancelled.
Cancellable_Any == status # "DELETED"

Cancellable == status \notin {"SETTLED", "DELETED"}

\* Mutant: the offer that is out is not withdrawn.
Withdrawn_Not == offer

Withdrawn == IF current = None THEN offer ELSE Marked(current, "SKIPPED")

\* cancelAuctionTx.
Cancel ==
    /\ Cancellable
    /\ offer' = Withdrawn
    /\ status' = "CANCELLED" /\ current' = None
    /\ UNCHANGED <<active, ended, bids, high, win, stripe, handled, listed, editing,
                   closes, first, faults>>

\* reopenAuctionTx: bids, ranks and their statuses stay as they are.
Reopen ==
    /\ status = "CANCELLED" /\ closes < MaxCloses
    /\ status' = "OPEN" /\ current' = None
    /\ UNCHANGED <<active, ended, bids, high, offer, win, stripe, handled, listed, editing,
                   closes, first, faults>>

\* PUT /auctions/:id reads the status ...
EditRead ==
    /\ editing = "none" /\ status # "DELETED"
    /\ editing' = IF status = "OPEN" THEN "open" ELSE "other"
    /\ UNCHANGED <<row, stripe, handled, listed, closes, first, faults>>

\* ... and writes the deadline if the auction was open then.
EditWrite ==
    /\ editing # "none" /\ editing' = "none"
    /\ \/ status = "DELETED" /\ UNCHANGED <<active, ended>>
       \/ /\ status # "DELETED"
          /\ active' \in BOOLEAN
          /\ IF editing = "open" THEN ended' \in BOOLEAN ELSE UNCHANGED ended
    /\ UNCHANGED <<status, bids, high, offer, current, win, stripe, handled, listed,
                   closes, first, faults>>

\* DELETE /auctions/:id; a bid that slips in after the count trips the foreign key.
Delete ==
    /\ status # "DELETED" /\ bids = <<>>
    /\ status' = "DELETED"
    /\ UNCHANGED <<active, ended, bids, high, offer, current, win, stripe, handled, listed,
                   editing, closes, first, faults>>

-----------------------------------------------------------------------------
Deadline ==
    /\ ~ended /\ ended' = TRUE
    /\ UNCHANGED <<status, active, bids, high, offer, current, win, stripe, handled, listed,
                   editing, closes, first, faults>>

\* The process restarts: the running sweep and the running requests are gone.
Restart ==
    /\ Fault
    /\ listed' = FALSE /\ editing' = "none"
    /\ UNCHANGED <<row, stripe, handled, closes, first>>

Next ==
    \/ \E d \in Donor, cents \in 1..MaxCents : PlaceBid(d, cents)
    \/ SweepList \/ SweepClose
    \/ \E s \in Session : Pay(s) \/ Expire(s) \/ Webhook(s)
    \/ ForceClose \/ SkipOffer \/ Cancel \/ Reopen \/ EditRead \/ EditWrite \/ Delete
    \/ Deadline \/ Restart

Spec == Init /\ [][Next]_vars

\* The scheduler keeps ticking, and Stripe expires what nobody pays and retries
\* a webhook until it is answered.
Fairness ==
    /\ WF_vars(SweepList) /\ WF_vars(SweepClose)
    /\ \A s \in Session : WF_vars(Expire(s)) /\ WF_vars(s \notin handled /\ Webhook(s))

FairSpec == Spec /\ Fairness

-----------------------------------------------------------------------------
Offered == {s \in Session : offer[s].status # "NONE"}
Payer(s) == bids[offer[s].bid].donor
FirstCascade == closes = 1 /\ status \in {"AWAITING_PAYMENT", "SETTLED", "UNSOLD"}
Bidders == {bids[i].donor : i \in DOMAIN bids}

\* current_bid_cents "mirrors Bid rows": it is the best bid, by the high bidder,
\* and the only bid that may be ACTIVE, also after a cancelled cascade.
HighBidMirrors ==
    /\ bids = <<>> <=> high.donor = "none"
    /\ \A i \in DOMAIN bids :
          /\ bids[i].cents <= high.cents
          /\ bids[i].cents = high.cents <=> i = Len(bids)
          /\ bids[i].status = "ACTIVE" => i = Len(bids)
    /\ bids # <<>> => bids[Len(bids)].donor = high.donor

\* sendOfferTx: "no other offer is currently SENT".  One offer is out exactly while
\* the auction awaits payment, and it is the one the auction points to.
OneLiveOffer ==
    {s \in Session : offer[s].status = "SENT"} =
        IF status = "AWAITING_PAYMENT" THEN {current} ELSE {}

\* What the tables say of an offer is what Stripe did, whatever order its webhooks
\* came in: nobody is passed over for a session that is not theirs.
OfferMirrorsStripe ==
    \A s \in Session :
        /\ offer[s].status = "PAID" => stripe[s] = "paid"
        /\ offer[s].status = "EXPIRED" => stripe[s] = "expired"

\* An auction is sold once, to one donor who paid, and exactly when it says so.
SoldOnce ==
    /\ status = "SETTLED" <=> win # None
    /\ {s \in Session : offer[s].status = "PAID"} = {win} \ {None}
    /\ {i \in DOMAIN bids : bids[i].status = "WON"} = {offer[s].bid : s \in {win} \ {None}}

\* In the first cascade an offer is for the donor's best bid, and everybody who bid
\* more has had one offer and let it go.
CascadeInOrder ==
    FirstCascade => \A s \in Offered :
        /\ \A i \in DOMAIN bids : bids[i].donor = Payer(s) => ~Better(i, offer[s].bid)
        /\ \A i \in Best : Better(i, offer[s].bid) =>
              \E t \in Offered : t < s /\ offer[t].bid = i
                                 /\ offer[t].status \in {"EXPIRED", "SKIPPED"}
        /\ \A t \in Offered : Payer(t) = Payer(s) => t = s

\* The first cascade ends UNSOLD only when every bidder has had an offer.
UnsoldMeansExhausted ==
    FirstCascade /\ status = "UNSOLD" => Bidders = {Payer(s) : s \in Offered}

(***************************************************************************)
(* The inductive strengthening of the invariants above.                    *)
(***************************************************************************)

\* The auction points to an offer only while it awaits payment, and an offer is
\* for a bid that was made.
OfferInv ==
    /\ status # "AWAITING_PAYMENT" => current = None
    /\ \A s \in Offered : offer[s].bid \in DOMAIN bids

SaleInv == HighBidMirrors /\ OneLiveOffer /\ OfferMirrorsStripe /\ SoldOnce /\ OfferInv

\* Bids rise, so the last bid of a donor is the best one.
BidInv ==
    /\ \A i, j \in DOMAIN bids : i < j => bids[i].cents < bids[j].cents
    /\ \A i \in DOMAIN bids : \E b \in Best : bids[b].donor = bids[i].donor

\* Sessions are opened in order, and an offer has an opened session.
SessionInv ==
    /\ \A s, t \in Session : s < t /\ stripe[s] = "unused" => stripe[t] = "unused"
    /\ \A s \in Offered : stripe[s] # "unused"

\* The first cascade: ranks are those of the close, offers went out rank by rank
\* from the first, all but the last are closed, and it ends after the last rank.
RankByRank ==
    /\ \A i \in DOMAIN bids : bids[i].rank = IF i \in Best THEN RankOf(i) ELSE None
    /\ \A s \in Offered : offer[s].bid \in Best /\ offer[s].rank = RankOf(offer[s].bid)
    /\ \A s \in Offered : \A r \in 1..offer[s].rank : \E t \in Offered : offer[t].rank = r
    /\ \A s, t \in Offered : s < t =>
          offer[s].rank < offer[t].rank /\ offer[s].status \in {"EXPIRED", "SKIPPED"}
    /\ status = "UNSOLD" => \E s \in Offered : \A i \in DOMAIN bids :
          bids[i].rank # Follows(offer[s].rank)

FirstInv ==
    /\ closes = 0 => Offered = {} /\ \A i \in DOMAIN bids : bids[i].rank = None
    /\ closes # 0 => bids # <<>>
    /\ FirstCascade => RankByRank

CascadeInv == BidInv /\ SessionInv /\ FirstInv

\* A settled sale is final: no staff action, late webhook or sweep touches it.
SettledIsFinal == [][status = "SETTLED" => UNCHANGED <<status, bids, offer, current, win>>]_vars

\* cancelAuctionTx: "Nothing has been charged pre-payment under this model, so
\* cancellation never needs to refund anything".  It does not hold: a payment
\* made before the cancel is reported after it (README, divergences).
CancelledOwesNothing == status = "CANCELLED" => \A s \in handled : stripe[s] # "paid"

\* reopenAuctionTx: the cascade "is recomputed at close via `rankBids`", which keeps
\* one bid per donor: no cascade offers the auction to a donor twice.  It does not
\* hold after a reopening (README, divergences).
OneOfferPerCascade ==
    \A s, t \in Offered : s >= first /\ t >= first /\ Payer(s) = Payer(t) => s = t

\* A cascade ends by itself: paid, or unsold after the last bidder.
CascadeEnds == status = "AWAITING_PAYMENT" ~> status # "AWAITING_PAYMENT"

\* A payment of the offer that is out buys the auction, unless staff intervene.
PaymentSettles ==
    \A s \in Session :
        (stripe[s] = "paid" /\ current = s) ~> (win = s \/ offer[s].status = "SKIPPED")
=============================================================================
