---------------------------- MODULE Auction_proofs ----------------------------
(***************************************************************************)
(* Proofs about Auction for every set of donors, every price, every number *)
(* of Checkout Sessions, reopenings, failed transactions and restarts.     *)
(***************************************************************************)
EXTENDS Auction, SequenceTheorems, SumTheorems, TLAPS

BidStatus == {"ACTIVE", "OUTBID", "OFFERED", "WON", "PASSED"}
OfferStatus == {"NONE", "SENT", "PAID", "EXPIRED", "SKIPPED"}
OfferType == [Session -> [bid : Nat, rank : Nat, status : OfferStatus]]

-----------------------------------------------------------------------------
(* What the operators of the model return.                                 *)

LEMMA BidsAreASequence ==
    ASSUME NEW bs \in Seq(Bid)
    PROVE  /\ Len(bs) \in Nat /\ DOMAIN bs = 1..Len(bs)
           /\ bs \in [1..Len(bs) -> Bid]
           /\ bs = <<>> <=> Len(bs) = 0
  BY LenProperties, EmptySeq

LEMMA SequenceOfBids ==
    ASSUME NEW n \in Nat, NEW f \in [1..n -> Bid]
    PROVE  f \in Seq(Bid) /\ Len(f) = n /\ DOMAIN f = 1..n
<1>1. f \in Seq(Bid)
  BY SeqDef
<1> QED
  BY <1>1, LenProperties

\* cs are the bids bs but for the status of bid i, which is st.
Restamped(bs, cs, i, st) ==
    /\ cs \in Seq(Bid) /\ Len(cs) = Len(bs) /\ DOMAIN cs = DOMAIN bs
    /\ \A j \in DOMAIN bs :
          /\ cs[j].donor = bs[j].donor /\ cs[j].cents = bs[j].cents
          /\ cs[j].rank = bs[j].rank
          /\ cs[j].status = IF j = i THEN st ELSE bs[j].status

LEMMA WithStatusIs ==
    ASSUME NEW bs \in Seq(Bid), NEW i \in DOMAIN bs, NEW st \in BidStatus
    PROVE  Restamped(bs, WithStatus(bs, i, st), i, st)
<1> DEFINE b == [bs[i] EXCEPT !.status = st]
<1>1. DOMAIN bs = 1..Len(bs) /\ bs[i] \in Bid
  BY BidsAreASequence
<1>2. b \in Bid
  BY <1>1 DEF Bid, BidStatus
<1>3. /\ b.donor = bs[i].donor /\ b.cents = bs[i].cents /\ b.rank = bs[i].rank
      /\ b.status = st
  BY <1>1 DEF Bid
<1>4. WithStatus(bs, i, st) = [bs EXCEPT ![i] = b]
  BY DEF WithStatus
<1> HIDE DEF b
<1>5. /\ [bs EXCEPT ![i] = b] \in Seq(Bid) /\ Len([bs EXCEPT ![i] = b]) = Len(bs)
      /\ \A j \in 1..Len(bs) : [bs EXCEPT ![i] = b][j] = IF j = i THEN b ELSE bs[j]
  BY <1>1, <1>2, ExceptSeq
<1> QED
  BY <1>1, <1>3, <1>4, <1>5 DEF Restamped

LEMMA MarkedIs ==
    ASSUME offer \in OfferType, NEW s \in Session, NEW st \in OfferStatus
    PROVE  /\ Marked(s, st) \in OfferType
           /\ \A t \in Session :
                 /\ Marked(s, st)[t].bid = offer[t].bid
                 /\ Marked(s, st)[t].rank = offer[t].rank
                 /\ Marked(s, st)[t].status = IF t = s THEN st ELSE offer[t].status
<1> DEFINE o == [offer[s] EXCEPT !.status = st]
<1>1. offer[s] \in [bid : Nat, rank : Nat, status : OfferStatus]
  BY DEF OfferType
<1>2. o \in [bid : Nat, rank : Nat, status : OfferStatus]
  BY <1>1 DEF OfferStatus
<1>3. o.bid = offer[s].bid /\ o.rank = offer[s].rank /\ o.status = st
  BY <1>1
<1>4. Marked(s, st) = [offer EXCEPT ![s] = o]
  BY DEF Marked
<1> HIDE DEF o
<1> QED
  BY <1>2, <1>3, <1>4 DEF OfferType

\* The bids after placeBidTx: the new one is last, the outbid one has its status.
LEMMA PlacedIs ==
    ASSUME bids \in Seq(Bid), high \in [cents : 0..MaxCents, donor : Donor \cup {"none"}],
           NEW d \in Donor, NEW cents \in 1..MaxCents, PlaceBid(d, cents)
    PROVE  /\ bids' \in Seq(Bid) /\ Len(bids') = Len(bids) + 1
           /\ DOMAIN bids = 1..Len(bids) /\ DOMAIN bids' = 1..(Len(bids) + 1)
           /\ \A i \in DOMAIN bids :
                 /\ bids'[i].donor = bids[i].donor
                 /\ bids'[i].cents = bids[i].cents
                 /\ bids'[i].rank = bids[i].rank
                 /\ bids'[i].status =
                       IF bids[i].donor = high.donor /\ bids[i].status = "ACTIVE"
                       THEN "OUTBID" ELSE bids[i].status
           /\ bids'[Len(bids) + 1] =
                 [donor |-> d, cents |-> cents, rank |-> None, status |-> "ACTIVE"]
<1> DEFINE new == [donor |-> d, cents |-> cents, rank |-> None, status |-> "ACTIVE"]
           Old(i) == IF bids[i].donor = high.donor /\ bids[i].status = "ACTIVE"
                     THEN [bids[i] EXCEPT !.status = "OUTBID"] ELSE bids[i]
           old == [i \in DOMAIN bids |-> Old(i)]
<1>1. Len(bids) \in Nat /\ DOMAIN bids = 1..Len(bids) /\ \A i \in DOMAIN bids : bids[i] \in Bid
  BY BidsAreASequence
<1>2. new \in Bid
  BY DEF Bid, None
<1>3. \A i \in DOMAIN bids :
         /\ Old(i) \in Bid
         /\ Old(i).donor = bids[i].donor /\ Old(i).cents = bids[i].cents
         /\ Old(i).rank = bids[i].rank
         /\ Old(i).status = IF bids[i].donor = high.donor /\ bids[i].status = "ACTIVE"
                            THEN "OUTBID" ELSE bids[i].status
  BY <1>1 DEF Bid
<1>4. old \in Seq(Bid) /\ Len(old) = Len(bids) /\ DOMAIN old = DOMAIN bids
  BY <1>1, <1>3, SequenceOfBids
<1>5. \A i \in DOMAIN bids : old[i] = Old(i)
  OBVIOUS
<1>6. bids' = Append(old, new)
  BY DEF PlaceBid
<1> HIDE DEF old, Old, new
<1>7. /\ Append(old, new) \in Seq(Bid) /\ Len(Append(old, new)) = Len(old) + 1
      /\ \A i \in 1..Len(old) : Append(old, new)[i] = old[i]
      /\ Append(old, new)[Len(old) + 1] = new
  BY <1>2, <1>4
<1>8. DOMAIN bids' = 1..(Len(bids) + 1)
  BY <1>4, <1>6, <1>7, BidsAreASequence
<1>9. bids'[Len(bids) + 1] = new
  BY <1>4, <1>6, <1>7
<1> QED
  BY <1>1, <1>3, <1>4, <1>5, <1>6, <1>7, <1>8, <1>9 DEF new

\* Cardinality counts the better bids: RankOf is a number.
LEMMA RankType ==
    ASSUME bids \in Seq(Bid), NEW i
    PROVE  /\ IsFiniteSet({j \in Best : Better(j, i)})
           /\ RankOf(i) \in Nat /\ RankOf(i) >= 1
<1>1. Len(bids) \in Nat /\ DOMAIN bids = 1..Len(bids)
  BY BidsAreASequence
<1>2. IsFiniteSet(DOMAIN bids)
  BY <1>1, FS_Interval
<1>3. IsFiniteSet({j \in Best : Better(j, i)})
  BY <1>2, FS_Subset DEF Best
<1>4. Cardinality({j \in Best : Better(j, i)}) \in Nat
  BY <1>3, FS_CardinalityType
<1> QED
  BY <1>3, <1>4 DEF RankOf

LEMMA RankedIs ==
    ASSUME bids \in Seq(Bid)
    PROVE  /\ Ranked \in Seq(Bid) /\ Len(Ranked) = Len(bids) /\ DOMAIN Ranked = DOMAIN bids
           /\ \A i \in DOMAIN bids :
                 /\ Ranked[i].donor = bids[i].donor /\ Ranked[i].cents = bids[i].cents
                 /\ Ranked[i].status = bids[i].status
                 /\ Ranked[i].rank = IF i \in Best THEN RankOf(i) ELSE bids[i].rank
<1> DEFINE R(i) == IF i \in Best THEN [bids[i] EXCEPT !.rank = RankOf(i)] ELSE bids[i]
<1>1. Len(bids) \in Nat /\ DOMAIN bids = 1..Len(bids) /\ \A i \in DOMAIN bids : bids[i] \in Bid
  BY BidsAreASequence
<1>2. \A i \in DOMAIN bids : RankOf(i) \in Nat
  BY RankType
<1>3. \A i \in DOMAIN bids :
         /\ R(i) \in Bid
         /\ R(i).donor = bids[i].donor /\ R(i).cents = bids[i].cents
         /\ R(i).status = bids[i].status
         /\ R(i).rank = IF i \in Best THEN RankOf(i) ELSE bids[i].rank
  BY <1>1, <1>2 DEF Bid
<1>4. Ranked = [i \in DOMAIN bids |-> R(i)]
  BY DEF Ranked
<1> HIDE DEF R
<1>5. Ranked \in [1..Len(bids) -> Bid]
  BY <1>1, <1>3, <1>4
<1>6. Ranked \in Seq(Bid) /\ Len(Ranked) = Len(bids) /\ DOMAIN Ranked = DOMAIN bids
  BY <1>1, <1>5, SequenceOfBids
<1> QED
  BY <1>3, <1>4, <1>6

-----------------------------------------------------------------------------
(* The steps, by what they do to the auction, its bids and its offers.     *)

CoreOK ==
    /\ status \in Statuses
    /\ bids \in Seq(Bid)
    /\ high \in [cents : 0..MaxCents, donor : Donor \cup {"none"}]
    /\ offer \in OfferType
    /\ current \in 0..MaxSessions /\ win \in 0..MaxSessions
    /\ stripe \in [Session -> {"unused", "open", "paid", "expired"}]
    /\ closes \in Nat

Opens(s) == NextSession(s) /\ stripe' = [stripe EXCEPT ![s] = "open"]

\* Nothing but Stripe moves: a webhook that is not about the offer that is out, a
\* transaction that rolled back, a payment, an edit of the deadline, a restart.
Quiet ==
    /\ UNCHANGED <<status, bids, high, offer, current, win, closes>>
    /\ \/ UNCHANGED stripe
       \/ \E s \in Session : Opens(s)
       \/ \E s \in Session, x \in {"paid", "expired"} :
             stripe[s] = "open" /\ stripe' = [stripe EXCEPT ![s] = x]

\* closeAuctionTx without a bid.
ClosedEmpty ==
    /\ status = "OPEN" /\ bids = <<>> /\ status' = "UNSOLD"
    /\ UNCHANGED <<bids, high, offer, current, win, stripe, closes>>

\* closeAuctionTx with bids: the best one, b, gets the session s.
Opened(s, b) ==
    /\ status = "OPEN" /\ status' = "AWAITING_PAYMENT" /\ current' = s
    /\ b \in Best /\ RankOf(b) = 1
    /\ Opens(s)
    /\ offer' = [offer EXCEPT ![s] = [bid |-> b, rank |-> 1, status |-> "SENT"]]
    /\ bids' = WithStatus(Ranked, b, "OFFERED")
    /\ closes' = closes + 1
    /\ UNCHANGED <<high, win>>

\* settleWinTx.
Settled(s) ==
    /\ stripe[s] = "paid" /\ s = current /\ offer[s].status = "SENT"
    /\ offer' = Marked(s, "PAID")
    /\ bids' = WithStatus(bids, offer[s].bid, "WON")
    /\ win' = s /\ status' = "SETTLED" /\ current' = None
    /\ UNCHANGED <<high, stripe, closes>>

\* What ends the offer of session s: Stripe expired it, or staff skipped it.
Ends(s, st) ==
    /\ s = current /\ offer[s].status = "SENT"
    /\ \/ st = "EXPIRED" /\ stripe[s] = "expired"
       \/ st = "SKIPPED"

\* advanceToNextRankTx with a next bid b, which gets the session t.
Advanced(s, st, t, b) ==
    /\ Ends(s, st)
    /\ b \in DOMAIN bids /\ bids[b].rank = Follows(offer[s].rank)
    /\ Opens(t)
    /\ offer' = [Marked(s, st) EXCEPT ![t] =
                    [bid |-> b, rank |-> Follows(offer[s].rank), status |-> "SENT"]]
    /\ bids' = WithStatus(WithStatus(bids, offer[s].bid, "PASSED"), b, "OFFERED")
    /\ status' = "AWAITING_PAYMENT" /\ current' = t
    /\ UNCHANGED <<high, win, closes>>

\* advanceToNextRankTx after the last rank.
Exhausted(s, st) ==
    /\ Ends(s, st)
    /\ \A b \in DOMAIN bids : bids[b].rank # Follows(offer[s].rank)
    /\ offer' = Marked(s, st)
    /\ bids' = WithStatus(bids, offer[s].bid, "PASSED")
    /\ status' = "UNSOLD" /\ current' = None
    /\ UNCHANGED <<high, win, stripe, closes>>

\* cancelAuctionTx, reopenAuctionTx and DELETE /auctions/:id.
Cancelled ==
    /\ status \notin {"SETTLED", "DELETED"} /\ status' = "CANCELLED" /\ current' = None
    /\ offer' = Withdrawn
    /\ UNCHANGED <<bids, high, win, stripe, closes>>

Reopened ==
    /\ status = "CANCELLED" /\ status' = "OPEN" /\ current' = None
    /\ UNCHANGED <<bids, high, offer, win, stripe, closes>>

Deleted ==
    /\ bids = <<>> /\ status # "DELETED" /\ status' = "DELETED"
    /\ UNCHANGED <<bids, high, offer, current, win, stripe, closes>>

LEMMA CloseCases ==
    ASSUME Close
    PROVE  \/ ClosedEmpty \/ Quiet
           \/ \E s \in Session, b \in Best : Opened(s, b)
<1>1. CASE bids = <<>> /\ status' = "UNSOLD"
           /\ UNCHANGED <<active, ended, bids, high, offer, current, win, stripe, closes, first, faults>>
  BY <1>1 DEF Close, Closable, ClosedEmpty
<1>2. CASE /\ \E b \in Best : RankOf(b) = 1 /\ SendOffer(offer, Ranked, b, 1)
           /\ closes' = closes + 1
  BY <1>2 DEF Close, Closable, SendOffer, Opened, Opens
<1>3. CASE RollBack /\ UNCHANGED <<closes, first>>
  BY <1>3 DEF RollBack, Quiet, Opens, row
<1> QED
  BY <1>1, <1>2, <1>3 DEF Close

LEMMA AdvanceCases ==
    ASSUME NEW s \in Session, NEW st, Advance(s, st), Ends(s, st), UNCHANGED closes
    PROVE  \/ \E t \in Session, b \in DOMAIN bids : Advanced(s, st, t, b)
           \/ Exhausted(s, st)
<1> DEFINE next == {b \in DOMAIN bids : bids[b].rank = Follows(offer[s].rank)}
           bs == WithStatus(bids, offer[s].bid, "PASSED")
<1>1. CASE next = {} /\ offer' = Marked(s, st) /\ bids' = bs
           /\ status' = "UNSOLD" /\ current' = None
           /\ UNCHANGED <<active, ended, high, win, stripe, faults>>
  BY <1>1 DEF Exhausted
<1>2. CASE \E b \in next : SendOffer(Marked(s, st), bs, b, Follows(offer[s].rank))
  BY <1>2 DEF SendOffer, Advanced, Opens
<1> QED
  BY <1>1, <1>2 DEF Advance

LEMMA RollBackQuiet ==
    ASSUME RollBack, UNCHANGED closes
    PROVE  Quiet
  BY DEF RollBack, Quiet, Opens, row

\* Every step is of one of the kinds above.
LEMMA StepCases ==
    ASSUME CoreOK, NEW P, [Next]_vars,
           Quiet => P, ClosedEmpty => P, Cancelled => P, Reopened => P, Deleted => P,
           \A d \in Donor, cents \in 1..MaxCents : PlaceBid(d, cents) => P,
           \A s \in Session, b \in Best : Opened(s, b) => P,
           \A s \in Session : Settled(s) => P,
           \A s \in Session, st \in {"EXPIRED", "SKIPPED"} : Exhausted(s, st) => P,
           \A s \in Session, st \in {"EXPIRED", "SKIPPED"}, t \in Session, b \in DOMAIN bids :
              Advanced(s, st, t, b) => P
    PROVE  P
<1>1. ASSUME Close PROVE P
  BY <1>1, CloseCases
<1>2. SweepList => P
  BY DEF SweepList, Quiet, row
<1>3. SweepClose => P
  BY <1>1 DEF SweepClose, Quiet, row
<1>4. \A s \in Session : Pay(s) \/ Expire(s) => P
  BY DEF Pay, Expire, Quiet, row
<1>5. \A s \in Session : HandleCompleted(s) => P
  <2> SUFFICES ASSUME NEW s \in Session, HandleCompleted(s) PROVE P
    OBVIOUS
  <2>1. CASE Concerns(s)
    <3>1. Settled(s)
      BY <2>1 DEF HandleCompleted, Concerns, IsCurrent, Settle, Settled
    <3> QED
      BY <3>1
  <2>2. CASE ~Concerns(s)
    BY <2>2 DEF HandleCompleted, Quiet, row
  <2> QED
    BY <2>1, <2>2
<1>6. \A s \in Session : HandleExpired(s) => P
  <2> SUFFICES ASSUME NEW s \in Session, HandleExpired(s) PROVE P
    OBVIOUS
  <2>1. UNCHANGED closes
    BY DEF HandleExpired
  <2>2. CASE Concerns(s) /\ Advance(current, "EXPIRED")
    <3>1. Ends(s, "EXPIRED") /\ Advance(s, "EXPIRED")
      BY <2>2 DEF HandleExpired, Concerns, IsCurrent, Ends
    <3> QED
      BY <2>1, <3>1, AdvanceCases
  <2>3. CASE RollBack
    BY <2>1, <2>3, RollBackQuiet
  <2>4. CASE UNCHANGED <<row, stripe, faults>>
    BY <2>1, <2>4 DEF Quiet, row
  <2> QED
    BY <2>2, <2>3, <2>4 DEF HandleExpired
<1>7. ForceClose => P
  BY <1>1 DEF ForceClose
<1>8. SkipOffer => P
  <2> SUFFICES ASSUME SkipOffer PROVE P
    OBVIOUS
  <2>1. UNCHANGED closes
    BY DEF SkipOffer
  <2>2. current \in Session /\ Ends(current, "SKIPPED")
    BY DEF SkipOffer, IsCurrent, Ends, CoreOK, None, Session
  <2>3. CASE Advance(current, "SKIPPED")
    BY <2>1, <2>2, <2>3, AdvanceCases
  <2>4. CASE RollBack
    BY <2>1, <2>4, RollBackQuiet
  <2> QED
    BY <2>3, <2>4 DEF SkipOffer
<1>9. Cancel => P
  BY DEF Cancel, Cancellable, Cancelled
<1>10. Reopen => P
  BY DEF Reopen, Reopened
<1>11. EditRead \/ EditWrite => P
  BY DEF EditRead, EditWrite, Quiet, row
<1>12. Delete => P
  BY DEF Delete, Deleted
<1>13. Deadline \/ Restart => P
  BY DEF Deadline, Restart, Quiet, row
<1>14. UNCHANGED vars => P
  BY DEF vars, Quiet, row
<1> QED
  BY <1>2, <1>3, <1>4, <1>5, <1>6, <1>7, <1>8, <1>9, <1>10, <1>11, <1>12, <1>13, <1>14
     DEF Next, Webhook

-----------------------------------------------------------------------------
(* Bids, offers and sessions after a step, one by one.                     *)

LEMMA OpensIs ==
    ASSUME CoreOK, NEW s \in Session, Opens(s)
    PROVE  /\ stripe[s] = "unused"
           /\ \A t \in Session : t < s => stripe[t] # "unused"
           /\ stripe' \in [Session -> {"unused", "open", "paid", "expired"}]
           /\ \A t \in Session : stripe'[t] = IF t = s THEN "open" ELSE stripe[t]
  BY DEF CoreOK, Opens, NextSession

LEMMA OpenedIs ==
    ASSUME CoreOK, NEW s \in Session, NEW b \in Best, Opened(s, b)
    PROVE  /\ b \in DOMAIN bids
           /\ bids' \in Seq(Bid) /\ Len(bids') = Len(bids) /\ DOMAIN bids' = DOMAIN bids
           /\ \A i \in DOMAIN bids :
                 /\ bids'[i].donor = bids[i].donor /\ bids'[i].cents = bids[i].cents
                 /\ bids'[i].rank = IF i \in Best THEN RankOf(i) ELSE bids[i].rank
                 /\ bids'[i].status = IF i = b THEN "OFFERED" ELSE bids[i].status
           /\ offer' \in OfferType
           /\ \A t \in Session :
                 offer'[t] = IF t = s THEN [bid |-> b, rank |-> 1, status |-> "SENT"]
                             ELSE offer[t]
<1>1. b \in DOMAIN bids /\ b \in Nat
  BY BidsAreASequence DEF CoreOK, Best
<1>2. b \in DOMAIN Ranked /\ Ranked \in Seq(Bid)
  BY <1>1, RankedIs DEF CoreOK
<1>3. Restamped(Ranked, bids', b, "OFFERED")
  <2>1. "OFFERED" \in BidStatus
    BY DEF BidStatus
  <2>2. Restamped(Ranked, WithStatus(Ranked, b, "OFFERED"), b, "OFFERED")
    BY <1>2, <2>1, WithStatusIs
  <2> QED
    BY <2>2 DEF Opened
<1>4. [bid |-> b, rank |-> 1, status |-> "SENT"]
         \in [bid : Nat, rank : Nat, status : OfferStatus]
  BY <1>1 DEF OfferStatus
<1>5. /\ offer' \in OfferType
      /\ \A t \in Session :
            offer'[t] = IF t = s THEN [bid |-> b, rank |-> 1, status |-> "SENT"]
                        ELSE offer[t]
  BY <1>4 DEF Opened, CoreOK, OfferType
<1>6. /\ Len(Ranked) = Len(bids) /\ DOMAIN Ranked = DOMAIN bids
      /\ \A i \in DOMAIN bids :
            /\ Ranked[i].donor = bids[i].donor /\ Ranked[i].cents = bids[i].cents
            /\ Ranked[i].status = bids[i].status
            /\ Ranked[i].rank = IF i \in Best THEN RankOf(i) ELSE bids[i].rank
  BY RankedIs DEF CoreOK
<1> QED
  BY <1>1, <1>3, <1>5, <1>6 DEF Restamped

LEMMA SettledIs ==
    ASSUME CoreOK, NEW s \in Session, Settled(s), offer[s].bid \in DOMAIN bids
    PROVE  /\ bids' \in Seq(Bid) /\ Len(bids') = Len(bids) /\ DOMAIN bids' = DOMAIN bids
           /\ \A i \in DOMAIN bids :
                 /\ bids'[i].donor = bids[i].donor /\ bids'[i].cents = bids[i].cents
                 /\ bids'[i].rank = bids[i].rank
                 /\ bids'[i].status = IF i = offer[s].bid THEN "WON" ELSE bids[i].status
           /\ offer' \in OfferType
           /\ \A t \in Session :
                 /\ offer'[t].bid = offer[t].bid /\ offer'[t].rank = offer[t].rank
                 /\ offer'[t].status = IF t = s THEN "PAID" ELSE offer[t].status
<1>1. "WON" \in BidStatus /\ "PAID" \in OfferStatus
  BY DEF BidStatus, OfferStatus
<1>2. bids \in Seq(Bid) /\ offer \in OfferType
  BY DEF CoreOK
<1>3. Restamped(bids, bids', offer[s].bid, "WON")
  BY <1>1, <1>2, WithStatusIs DEF Settled
<1> QED
  BY <1>1, <1>2, <1>3, MarkedIs DEF Settled, Restamped

LEMMA ExhaustedIs ==
    ASSUME CoreOK, NEW s \in Session, NEW st \in {"EXPIRED", "SKIPPED"}, Exhausted(s, st),
           offer[s].bid \in DOMAIN bids
    PROVE  /\ bids' \in Seq(Bid) /\ Len(bids') = Len(bids) /\ DOMAIN bids' = DOMAIN bids
           /\ \A i \in DOMAIN bids :
                 /\ bids'[i].donor = bids[i].donor /\ bids'[i].cents = bids[i].cents
                 /\ bids'[i].rank = bids[i].rank
                 /\ bids'[i].status = IF i = offer[s].bid THEN "PASSED" ELSE bids[i].status
           /\ offer' \in OfferType
           /\ \A t \in Session :
                 /\ offer'[t].bid = offer[t].bid /\ offer'[t].rank = offer[t].rank
                 /\ offer'[t].status = IF t = s THEN st ELSE offer[t].status
<1>1. "PASSED" \in BidStatus /\ st \in OfferStatus
  BY DEF BidStatus, OfferStatus
<1>2. bids \in Seq(Bid) /\ offer \in OfferType
  BY DEF CoreOK
<1>3. Restamped(bids, bids', offer[s].bid, "PASSED")
  BY <1>1, <1>2, WithStatusIs DEF Exhausted
<1> QED
  BY <1>1, <1>2, <1>3, MarkedIs DEF Exhausted, Restamped

LEMMA AdvancedIs ==
    ASSUME CoreOK, NEW s \in Session, NEW st \in {"EXPIRED", "SKIPPED"},
           NEW t \in Session, NEW b \in DOMAIN bids, Advanced(s, st, t, b),
           offer[s].bid \in DOMAIN bids
    PROVE  /\ bids' \in Seq(Bid) /\ Len(bids') = Len(bids) /\ DOMAIN bids' = DOMAIN bids
           /\ \A i \in DOMAIN bids :
                 /\ bids'[i].donor = bids[i].donor /\ bids'[i].cents = bids[i].cents
                 /\ bids'[i].rank = bids[i].rank
                 /\ bids'[i].status = IF i = b THEN "OFFERED"
                                      ELSE IF i = offer[s].bid THEN "PASSED"
                                      ELSE bids[i].status
           /\ offer' \in OfferType
           /\ \A u \in Session :
                 /\ offer'[u].bid = IF u = t THEN b ELSE offer[u].bid
                 /\ offer'[u].rank = IF u = t THEN Follows(offer[s].rank) ELSE offer[u].rank
                 /\ offer'[u].status = IF u = t THEN "SENT"
                                       ELSE IF u = s THEN st ELSE offer[u].status
<1> DEFINE bs == WithStatus(bids, offer[s].bid, "PASSED")
           os == Marked(s, st)
           new == [bid |-> b, rank |-> Follows(offer[s].rank), status |-> "SENT"]
<1>1. "PASSED" \in BidStatus /\ "OFFERED" \in BidStatus /\ st \in OfferStatus
  BY DEF BidStatus, OfferStatus
<1>2. bids \in Seq(Bid) /\ offer \in OfferType /\ b \in Nat /\ offer[s].rank \in Nat
  BY BidsAreASequence DEF CoreOK, OfferType
<1>3. Restamped(bids, bs, offer[s].bid, "PASSED")
  BY <1>1, <1>2, WithStatusIs
<1>4. /\ os \in OfferType
      /\ \A u \in Session :
            /\ os[u].bid = offer[u].bid /\ os[u].rank = offer[u].rank
            /\ os[u].status = IF u = s THEN st ELSE offer[u].status
  BY <1>1, <1>2, MarkedIs
<1>5. new \in [bid : Nat, rank : Nat, status : OfferStatus]
  BY <1>2 DEF OfferStatus, Follows
<1>6. bids' = WithStatus(bs, b, "OFFERED") /\ offer' = [os EXCEPT ![t] = new]
  BY DEF Advanced
<1>7. new.bid = b /\ new.rank = Follows(offer[s].rank) /\ new.status = "SENT"
  OBVIOUS
<1> HIDE DEF bs, os, new
<1>8. Restamped(bs, bids', b, "OFFERED")
  <2>1. bs \in Seq(Bid) /\ b \in DOMAIN bs
    BY <1>3 DEF Restamped
  <2>2. Restamped(bs, WithStatus(bs, b, "OFFERED"), b, "OFFERED")
    BY <1>1, <2>1, WithStatusIs
  <2> QED
    BY <1>6, <2>2
<1>9. /\ offer' \in OfferType
      /\ \A u \in Session :
            /\ offer'[u].bid = IF u = t THEN b ELSE offer[u].bid
            /\ offer'[u].rank = IF u = t THEN Follows(offer[s].rank) ELSE offer[u].rank
            /\ offer'[u].status = IF u = t THEN "SENT"
                                  ELSE IF u = s THEN st ELSE offer[u].status
  BY <1>4, <1>5, <1>6, <1>7 DEF OfferType
<1> QED
  BY <1>3, <1>8, <1>9 DEF Restamped

\* cancelAuctionTx withdraws the offer that is out, if there is one.
LEMMA CancelledIs ==
    ASSUME CoreOK, Cancelled
    PROVE  /\ offer' \in OfferType
           /\ \A t \in Session :
                 /\ offer'[t].bid = offer[t].bid /\ offer'[t].rank = offer[t].rank
                 /\ offer'[t].status = IF t = current THEN "SKIPPED" ELSE offer[t].status
<1>1. CASE current = None
  BY <1>1 DEF Cancelled, Withdrawn, CoreOK, Session, None
<1>2. CASE current # None
  <2>1. current \in Session /\ "SKIPPED" \in OfferStatus /\ offer \in OfferType
    BY <1>2 DEF CoreOK, Session, None, OfferStatus
  <2> QED
    BY <1>2, <2>1, MarkedIs DEF Cancelled, Withdrawn
<1> QED
  BY <1>1, <1>2

-----------------------------------------------------------------------------
(* The sale: types, the mirrored high bid, the one live offer and the win. *)

LEMMA HighFrame ==
    ASSUME HighBidMirrors, bids \in Seq(Bid), bids' \in Seq(Bid), UNCHANGED high,
           Len(bids') = Len(bids), DOMAIN bids' = DOMAIN bids,
           \A i \in DOMAIN bids :
              /\ bids'[i].donor = bids[i].donor /\ bids'[i].cents = bids[i].cents
              /\ bids'[i].status = "ACTIVE" => bids[i].status = "ACTIVE"
    PROVE  HighBidMirrors'
<1>1. /\ DOMAIN bids = 1..Len(bids) /\ Len(bids) \in Nat
      /\ bids = <<>> <=> Len(bids) = 0
      /\ bids' = <<>> <=> Len(bids') = 0
  BY BidsAreASequence
<1> QED
  BY <1>1 DEF HighBidMirrors

LEMMA SaleQuiet ==
    ASSUME CoreOK, SaleInv, Quiet
    PROVE  CoreOK' /\ SaleInv'
<1>1. UNCHANGED <<status, bids, high, offer, current, win, closes>>
  BY DEF Quiet
<1>2. /\ stripe' \in [Session -> {"unused", "open", "paid", "expired"}]
      /\ \A s \in Session : stripe[s] \in {"paid", "expired"} => stripe'[s] = stripe[s]
  <2>1. CASE UNCHANGED stripe
    BY <2>1 DEF CoreOK
  <2>2. CASE \E s \in Session : Opens(s)
    BY <2>2 DEF CoreOK, Opens, NextSession
  <2>3. CASE \E s \in Session, x \in {"paid", "expired"} :
                stripe[s] = "open" /\ stripe' = [stripe EXCEPT ![s] = x]
    BY <2>3 DEF CoreOK
  <2> QED
    BY <2>1, <2>2, <2>3 DEF Quiet
<1>3. CoreOK'
  BY <1>1, <1>2 DEF CoreOK
<1>4. OfferMirrorsStripe'
  BY <1>1, <1>2 DEF SaleInv, OfferMirrorsStripe
<1>5. HighBidMirrors' /\ OneLiveOffer' /\ SoldOnce' /\ OfferInv'
  BY <1>1 DEF SaleInv, HighBidMirrors, OneLiveOffer, SoldOnce, OfferInv, Offered
<1> QED
  BY <1>3, <1>4, <1>5 DEF SaleInv

\* A step between states that await no payment, which leaves bids and offers alone.
LEMMA SaleRestatus ==
    ASSUME CoreOK, SaleInv, UNCHANGED <<bids, high, offer, win, stripe, closes>>,
           status \notin {"AWAITING_PAYMENT", "SETTLED"}, current' = None,
           status' \in {"OPEN", "UNSOLD", "DELETED"}
    PROVE  CoreOK' /\ SaleInv'
<1>1. CoreOK'
  BY ConstantsAssumption DEF CoreOK, Statuses, None
<1>2. HighBidMirrors' /\ OfferMirrorsStripe'
  BY DEF SaleInv, HighBidMirrors, OfferMirrorsStripe
<1>3. OneLiveOffer' /\ OfferInv'
  BY DEF SaleInv, OneLiveOffer, OfferInv, Offered
<1>4. SoldOnce'
  BY DEF SaleInv, SoldOnce
<1> QED
  BY <1>1, <1>2, <1>3, <1>4 DEF SaleInv

LEMMA SaleCancelled ==
    ASSUME CoreOK, SaleInv, Cancelled
    PROVE  CoreOK' /\ SaleInv'
<1>1. /\ status \notin {"SETTLED", "DELETED"} /\ status' = "CANCELLED" /\ current' = None
      /\ UNCHANGED <<bids, high, win, stripe, closes>>
  BY DEF Cancelled
<1>2. /\ offer' \in OfferType
      /\ \A t \in Session :
            /\ offer'[t].bid = offer[t].bid /\ offer'[t].rank = offer[t].rank
            /\ offer'[t].status = IF t = current THEN "SKIPPED" ELSE offer[t].status
  BY CancelledIs
<1>3. CoreOK'
  BY <1>1, <1>2, ConstantsAssumption DEF CoreOK, Statuses, None
<1>4. HighBidMirrors' /\ OfferMirrorsStripe'
  BY <1>1, <1>2 DEF SaleInv, HighBidMirrors, OfferMirrorsStripe
<1>5. \A s \in Session : offer[s].status = "SENT" => s = current
  BY DEF SaleInv, OneLiveOffer
<1>6. \A s \in Session : s = current => offer[s].status = "SENT"
  BY DEF SaleInv, OneLiveOffer, OfferInv, None, Session
<1>7. OneLiveOffer' /\ OfferInv'
  BY <1>1, <1>2, <1>5, <1>6 DEF SaleInv, OneLiveOffer, OfferInv, Offered
<1>8. SoldOnce'
  BY <1>1, <1>2, <1>6 DEF SaleInv, SoldOnce
<1> QED
  BY <1>3, <1>4, <1>7, <1>8 DEF SaleInv

\* placeBidTx: the new bid is the highest, and the one bid that was ACTIVE is OUTBID.
LEMMA SalePlaced ==
    ASSUME CoreOK, SaleInv, NEW d \in Donor, NEW cents \in 1..MaxCents, PlaceBid(d, cents)
    PROVE  CoreOK' /\ SaleInv'
<1>0. bids \in Seq(Bid) /\ high \in [cents : 0..MaxCents, donor : Donor \cup {"none"}]
  BY DEF CoreOK
<1>1. /\ bids' \in Seq(Bid) /\ Len(bids') = Len(bids) + 1 /\ Len(bids) \in Nat
      /\ DOMAIN bids = 1..Len(bids) /\ DOMAIN bids' = 1..(Len(bids) + 1)
      /\ bids = <<>> <=> Len(bids) = 0
      /\ bids' # <<>>
  <2>1. /\ bids' \in Seq(Bid) /\ Len(bids') = Len(bids) + 1
        /\ DOMAIN bids = 1..Len(bids) /\ DOMAIN bids' = 1..(Len(bids) + 1)
    BY <1>0, PlacedIs
  <2>2. Len(bids) \in Nat /\ (bids = <<>> <=> Len(bids) = 0) /\ (bids' = <<>> <=> Len(bids') = 0)
    BY <1>0, <2>1, BidsAreASequence
  <2> QED
    BY <2>1, <2>2
<1>2. \A i \in DOMAIN bids :
         /\ bids'[i].donor = bids[i].donor /\ bids'[i].cents = bids[i].cents
         /\ bids'[i].status = IF bids[i].donor = high.donor /\ bids[i].status = "ACTIVE"
                              THEN "OUTBID" ELSE bids[i].status
  BY <1>0, PlacedIs
<1>3. /\ bids'[Len(bids) + 1].donor = d /\ bids'[Len(bids) + 1].cents = cents
      /\ bids'[Len(bids) + 1].status = "ACTIVE"
  <2>1. bids'[Len(bids) + 1] =
           [donor |-> d, cents |-> cents, rank |-> None, status |-> "ACTIVE"]
    BY <1>0, PlacedIs
  <2> QED
    BY <2>1
<1>4. /\ UNCHANGED <<status, offer, current, win, stripe, closes>> /\ status = "OPEN"
      /\ high' = [cents |-> cents, donor |-> d] /\ cents > high.cents
  BY DEF PlaceBid, Beats
<1>5. CoreOK'
  BY <1>1, <1>4 DEF CoreOK
<1>6. HighBidMirrors'
  <2>1. d # "none" /\ high'.donor = d /\ high'.cents = cents
    BY <1>4, ConstantsAssumption
  <2>2. \A i \in DOMAIN bids :
           /\ bids[i].cents <= high.cents /\ bids[i].cents \in Nat
           /\ bids[i].status = "ACTIVE" => bids[i].donor = high.donor
    <3>1. \A i \in DOMAIN bids : bids[i] \in Bid
      BY <1>0, BidsAreASequence
    <3>2. \A i \in DOMAIN bids : bids[i].cents \in Nat
      BY <3>1 DEF Bid
    <3> QED
      BY <1>1, <3>2 DEF SaleInv, HighBidMirrors
  <2>3. high.cents \in Nat
    BY ConstantsAssumption DEF CoreOK
  <2>4. ASSUME NEW i \in DOMAIN bids'
        PROVE  /\ bids'[i].cents <= high'.cents
               /\ bids'[i].cents = high'.cents <=> i = Len(bids')
               /\ bids'[i].status = "ACTIVE" => i = Len(bids')
    <3>1. CASE i = Len(bids) + 1
      BY <1>1, <1>3, <2>1, <3>1
    <3>2. CASE i # Len(bids) + 1
      <4>1. i \in DOMAIN bids
        BY <1>1, <3>2
      <4> QED
        BY <1>1, <1>2, <1>4, <2>1, <2>2, <2>3, <3>2, <4>1
    <3> QED
      BY <3>1, <3>2
  <2> QED
    BY <1>1, <1>3, <2>1, <2>4 DEF HighBidMirrors
<1>7. OneLiveOffer' /\ OfferMirrorsStripe'
  BY <1>4 DEF SaleInv, OneLiveOffer, OfferMirrorsStripe
<1>8. OfferInv'
  BY <1>1, <1>4 DEF SaleInv, OfferInv, Offered
<1>9. SoldOnce'
  <2>1. \A i \in DOMAIN bids' : bids'[i].status = "WON" <=> i \in DOMAIN bids /\ bids[i].status = "WON"
    BY <1>1, <1>2, <1>3
  <2> QED
    BY <1>1, <1>4, <2>1 DEF SaleInv, SoldOnce
<1> QED
  BY <1>5, <1>6, <1>7, <1>8, <1>9 DEF SaleInv

\* The first offer of a cascade: no offer was out, and now one is.
LEMMA SaleOpened ==
    ASSUME CoreOK, SaleInv, NEW s \in Session, NEW b \in Best, Opened(s, b)
    PROVE  CoreOK' /\ SaleInv'
<1>1. /\ status = "OPEN" /\ status' = "AWAITING_PAYMENT" /\ current' = s
      /\ UNCHANGED <<high, win>> /\ closes' = closes + 1 /\ Opens(s)
  BY DEF Opened
<1>2. /\ b \in DOMAIN bids
      /\ bids' \in Seq(Bid) /\ Len(bids') = Len(bids) /\ DOMAIN bids' = DOMAIN bids
      /\ \A i \in DOMAIN bids :
            /\ bids'[i].donor = bids[i].donor /\ bids'[i].cents = bids[i].cents
            /\ bids'[i].status = IF i = b THEN "OFFERED" ELSE bids[i].status
  BY OpenedIs
<1>3. /\ offer' \in OfferType
      /\ \A t \in Session : t # s => offer'[t] = offer[t]
      /\ offer'[s].status = "SENT" /\ offer'[s].bid = b
  <2>1. /\ offer' \in OfferType
        /\ \A t \in Session :
              offer'[t] = IF t = s THEN [bid |-> b, rank |-> 1, status |-> "SENT"]
                          ELSE offer[t]
    BY OpenedIs
  <2> QED
    BY <2>1
<1>4. /\ stripe' \in [Session -> {"unused", "open", "paid", "expired"}]
      /\ \A t \in Session : t # s => stripe'[t] = stripe[t]
  BY <1>1, OpensIs
<1>5. CoreOK'
  BY <1>1, <1>2, <1>3, <1>4 DEF CoreOK, Statuses, Session
<1>6. HighBidMirrors'
  BY <1>1, <1>2, HighFrame DEF CoreOK, SaleInv
<1>7. OneLiveOffer'
  BY <1>1, <1>3 DEF SaleInv, OneLiveOffer
<1>8. OfferMirrorsStripe'
  BY <1>3, <1>4 DEF SaleInv, OfferMirrorsStripe
<1>9. OfferInv'
  BY <1>1, <1>2, <1>3 DEF SaleInv, OfferInv, Offered
<1>10. offer[s].status # "PAID"
  BY <1>1, OpensIs DEF SaleInv, OfferMirrorsStripe
<1>11. SoldOnce'
  BY <1>1, <1>2, <1>3, <1>10 DEF SaleInv, SoldOnce
<1> QED
  BY <1>5, <1>6, <1>7, <1>8, <1>9, <1>11 DEF SaleInv

\* The offer that is out is about a bid, and the auction is not sold yet.
LEMMA LiveOffer ==
    ASSUME CoreOK, SaleInv, NEW s \in Session, offer[s].status = "SENT"
    PROVE  /\ status = "AWAITING_PAYMENT" /\ current = s /\ win = None
           /\ offer[s].bid \in DOMAIN bids
           /\ \A t \in Session : t # s => offer[t].status # "SENT"
           /\ \A t \in Session : offer[t].status # "PAID"
           /\ \A i \in DOMAIN bids : bids[i].status # "WON"
<1>1. status = "AWAITING_PAYMENT" /\ current = s
  BY DEF SaleInv, OneLiveOffer
<1>2. win = None
  BY <1>1 DEF SaleInv, SoldOnce
<1> QED
  BY <1>1, <1>2 DEF SaleInv, OneLiveOffer, SoldOnce, OfferInv, Offered

\* settleWinTx: the offer that is out is the one that was paid.
LEMMA SaleSettled ==
    ASSUME CoreOK, SaleInv, NEW s \in Session, Settled(s)
    PROVE  CoreOK' /\ SaleInv'
<1>1. /\ stripe[s] = "paid" /\ offer[s].status = "SENT"
      /\ win' = s /\ status' = "SETTLED" /\ current' = None
      /\ UNCHANGED <<high, stripe, closes>>
  BY DEF Settled
<1>2. /\ offer[s].bid \in DOMAIN bids
      /\ \A t \in Session : t # s => offer[t].status # "SENT"
      /\ \A t \in Session : offer[t].status # "PAID"
      /\ \A i \in DOMAIN bids : bids[i].status # "WON"
  BY <1>1, LiveOffer
<1>3. /\ bids' \in Seq(Bid) /\ Len(bids') = Len(bids) /\ DOMAIN bids' = DOMAIN bids
      /\ \A i \in DOMAIN bids :
            /\ bids'[i].donor = bids[i].donor /\ bids'[i].cents = bids[i].cents
            /\ bids'[i].status = IF i = offer[s].bid THEN "WON" ELSE bids[i].status
      /\ offer' \in OfferType
      /\ \A t \in Session :
            /\ offer'[t].bid = offer[t].bid
            /\ offer'[t].status = IF t = s THEN "PAID" ELSE offer[t].status
  BY <1>2, SettledIs
<1>4. CoreOK'
  BY <1>1, <1>3, ConstantsAssumption DEF CoreOK, Statuses, Session, None
<1>5. HighBidMirrors'
  BY <1>1, <1>3, HighFrame DEF CoreOK, SaleInv
<1>6. OneLiveOffer'
  BY <1>1, <1>2, <1>3 DEF OneLiveOffer
<1>7. OfferMirrorsStripe'
  BY <1>1, <1>3 DEF SaleInv, OfferMirrorsStripe
<1>8. OfferInv'
  BY <1>1, <1>2, <1>3 DEF SaleInv, OfferInv, Offered
<1>9. SoldOnce'
  <2>1. s # None
    BY DEF Session, None
  <2> QED
    BY <1>1, <1>2, <1>3, <2>1 DEF SoldOnce
<1> QED
  BY <1>4, <1>5, <1>6, <1>7, <1>8, <1>9 DEF SaleInv

LEMMA SaleExhausted ==
    ASSUME CoreOK, SaleInv, NEW s \in Session, NEW st \in {"EXPIRED", "SKIPPED"},
           Exhausted(s, st)
    PROVE  CoreOK' /\ SaleInv'
<1>1. /\ offer[s].status = "SENT" /\ (st = "EXPIRED" => stripe[s] = "expired")
      /\ status' = "UNSOLD" /\ current' = None
      /\ UNCHANGED <<high, win, stripe, closes>>
  BY DEF Exhausted, Ends
<1>2. /\ offer[s].bid \in DOMAIN bids /\ win = None
      /\ \A t \in Session : t # s => offer[t].status # "SENT"
      /\ \A t \in Session : offer[t].status # "PAID"
      /\ \A i \in DOMAIN bids : bids[i].status # "WON"
  BY <1>1, LiveOffer
<1>3. /\ bids' \in Seq(Bid) /\ Len(bids') = Len(bids) /\ DOMAIN bids' = DOMAIN bids
      /\ \A i \in DOMAIN bids :
            /\ bids'[i].donor = bids[i].donor /\ bids'[i].cents = bids[i].cents
            /\ bids'[i].status = IF i = offer[s].bid THEN "PASSED" ELSE bids[i].status
      /\ offer' \in OfferType
      /\ \A t \in Session :
            /\ offer'[t].bid = offer[t].bid
            /\ offer'[t].status = IF t = s THEN st ELSE offer[t].status
  BY <1>2, ExhaustedIs
<1>4. CoreOK'
  BY <1>1, <1>3, ConstantsAssumption DEF CoreOK, Statuses, None
<1>5. HighBidMirrors'
  BY <1>1, <1>3, HighFrame DEF CoreOK, SaleInv
<1>6. OneLiveOffer'
  BY <1>1, <1>2, <1>3 DEF OneLiveOffer
<1>7. OfferMirrorsStripe'
  BY <1>1, <1>3 DEF SaleInv, OfferMirrorsStripe
<1>8. OfferInv'
  BY <1>1, <1>2, <1>3 DEF SaleInv, OfferInv, Offered
<1>9. SoldOnce'
  BY <1>1, <1>2, <1>3 DEF SoldOnce
<1> QED
  BY <1>4, <1>5, <1>6, <1>7, <1>8, <1>9 DEF SaleInv

\* One offer goes and the next comes in the same transaction.
LEMMA SaleAdvanced ==
    ASSUME CoreOK, SaleInv, NEW s \in Session, NEW st \in {"EXPIRED", "SKIPPED"},
           NEW t \in Session, NEW b \in DOMAIN bids, Advanced(s, st, t, b)
    PROVE  CoreOK' /\ SaleInv'
<1>1. /\ offer[s].status = "SENT" /\ (st = "EXPIRED" => stripe[s] = "expired")
      /\ status' = "AWAITING_PAYMENT" /\ current' = t
      /\ UNCHANGED <<high, win, closes>> /\ Opens(t)
  BY DEF Advanced, Ends
<1>2. /\ offer[s].bid \in DOMAIN bids /\ win = None
      /\ \A u \in Session : u # s => offer[u].status # "SENT"
      /\ \A u \in Session : offer[u].status # "PAID"
      /\ \A i \in DOMAIN bids : bids[i].status # "WON"
  BY <1>1, LiveOffer
<1>3. /\ bids' \in Seq(Bid) /\ Len(bids') = Len(bids) /\ DOMAIN bids' = DOMAIN bids
      /\ \A i \in DOMAIN bids :
            /\ bids'[i].donor = bids[i].donor /\ bids'[i].cents = bids[i].cents
            /\ bids'[i].status = IF i = b THEN "OFFERED"
                                 ELSE IF i = offer[s].bid THEN "PASSED"
                                 ELSE bids[i].status
      /\ offer' \in OfferType
      /\ \A u \in Session :
            /\ offer'[u].bid = IF u = t THEN b ELSE offer[u].bid
            /\ offer'[u].status = IF u = t THEN "SENT"
                                  ELSE IF u = s THEN st ELSE offer[u].status
  BY <1>2, AdvancedIs
<1>4. /\ stripe' \in [Session -> {"unused", "open", "paid", "expired"}]
      /\ \A u \in Session : u # t => stripe'[u] = stripe[u]
  BY <1>1, OpensIs
<1>5. CoreOK'
  BY <1>1, <1>3, <1>4 DEF CoreOK, Statuses, Session
<1>6. HighBidMirrors'
  BY <1>1, <1>3, HighFrame DEF CoreOK, SaleInv
<1>7. OneLiveOffer'
  BY <1>1, <1>2, <1>3 DEF OneLiveOffer
<1>8. OfferMirrorsStripe'
  BY <1>1, <1>3, <1>4 DEF SaleInv, OfferMirrorsStripe
<1>9. OfferInv'
  BY <1>1, <1>2, <1>3 DEF SaleInv, OfferInv, Offered
<1>10. SoldOnce'
  BY <1>1, <1>2, <1>3 DEF SoldOnce
<1> QED
  BY <1>5, <1>6, <1>7, <1>8, <1>9, <1>10 DEF SaleInv

\* Without a bid there is no offer: DELETE finds nothing awaiting payment or sold.
LEMMA SaleDeleted ==
    ASSUME CoreOK, SaleInv, Deleted
    PROVE  CoreOK' /\ SaleInv'
<1>1. DOMAIN bids = {}
  BY BidsAreASequence DEF Deleted, CoreOK
<1>2. \A s \in Session : offer[s].status = "NONE"
  BY <1>1 DEF SaleInv, OfferInv, Offered
<1>3. status # "AWAITING_PAYMENT"
  BY <1>2 DEF SaleInv, OneLiveOffer
<1>4. status # "SETTLED"
  BY <1>2 DEF SaleInv, SoldOnce
<1>5. current' = None
  BY <1>3 DEF SaleInv, OfferInv, Deleted
<1> QED
  BY <1>3, <1>4, <1>5, SaleRestatus DEF Deleted

LEMMA SaleStep ==
    ASSUME CoreOK, SaleInv, [Next]_vars
    PROVE  CoreOK' /\ SaleInv'
<1>1. Quiet => CoreOK' /\ SaleInv'
  BY SaleQuiet
<1>2. ClosedEmpty => CoreOK' /\ SaleInv'
  BY SaleRestatus DEF ClosedEmpty, SaleInv, OfferInv
<1>3. Cancelled => CoreOK' /\ SaleInv'
  BY SaleCancelled
<1>4. Reopened => CoreOK' /\ SaleInv'
  BY SaleRestatus DEF Reopened
<1>5. Deleted => CoreOK' /\ SaleInv'
  BY SaleDeleted
<1>6. \A d \in Donor, cents \in 1..MaxCents : PlaceBid(d, cents) => CoreOK' /\ SaleInv'
  BY SalePlaced
<1>7. \A s \in Session, b \in Best : Opened(s, b) => CoreOK' /\ SaleInv'
  BY SaleOpened
<1>8. \A s \in Session : Settled(s) => CoreOK' /\ SaleInv'
  BY SaleSettled
<1>9. \A s \in Session, st \in {"EXPIRED", "SKIPPED"} : Exhausted(s, st) => CoreOK' /\ SaleInv'
  BY SaleExhausted
<1>10. \A s \in Session, st \in {"EXPIRED", "SKIPPED"}, t \in Session, b \in DOMAIN bids :
          Advanced(s, st, t, b) => CoreOK' /\ SaleInv'
  BY SaleAdvanced
<1> QED
  BY <1>1, <1>2, <1>3, <1>4, <1>5, <1>6, <1>7, <1>8, <1>9, <1>10, StepCases

LEMMA SaleInit == Init => CoreOK /\ SaleInv
<1> SUFFICES ASSUME Init PROVE CoreOK /\ SaleInv
  OBVIOUS
<1>1. bids = <<>> /\ bids \in Seq(Bid) /\ Len(bids) = 0 /\ DOMAIN bids = {}
  BY EmptySeq, BidsAreASequence DEF Init
<1>2. /\ status = "OPEN" /\ offer = [s \in Session |-> NoOffer] /\ current = None /\ win = None
      /\ stripe = [s \in Session |-> "unused"] /\ closes = 0
      /\ high = [cents |-> 0, donor |-> "none"]
  BY DEF Init
<1>3. offer \in OfferType
  BY <1>2 DEF OfferType, OfferStatus, NoOffer, None
<1>4. CoreOK
  BY <1>1, <1>2, <1>3, ConstantsAssumption DEF CoreOK, Statuses, None
<1>5. \A s \in Session : offer[s].status = "NONE"
  BY <1>2 DEF NoOffer
<1>6. HighBidMirrors
  BY <1>1, <1>2 DEF HighBidMirrors
<1>7. OneLiveOffer /\ OfferMirrorsStripe /\ SoldOnce /\ OfferInv
  BY <1>1, <1>2, <1>5 DEF OneLiveOffer, OfferMirrorsStripe, SoldOnce, OfferInv, Offered
<1> QED
  BY <1>4, <1>6, <1>7 DEF SaleInv

\* One offer is out exactly while the auction awaits payment, an auction is sold at
\* most once and to the donor who paid, and the auction mirrors its bids, whatever
\* order the sweep, staff, Stripe's webhooks and rolled-back transactions come in
\* (closeAuctionTx, advanceCascadeTx, settleWinTx, cancelAuctionTx).
THEOREM SaleCorrect == Spec => [](CoreOK /\ SaleInv)
<1>1. CoreOK /\ SaleInv /\ [Next]_vars => (CoreOK /\ SaleInv)'
  BY SaleStep
<1> QED
  BY <1>1, SaleInit, PTL DEF Spec

\* What the requests, the sweep and the histories add to the types.
RestOK ==
    /\ active \in BOOLEAN /\ ended \in BOOLEAN /\ listed \in BOOLEAN
    /\ handled \subseteq Session
    /\ editing \in {"none", "open", "other"}
    /\ first \in Nat /\ faults \in 0..MaxFaults

LEMMA RestFault ==
    ASSUME RestOK, Fault
    PROVE  faults' \in 0..MaxFaults
  BY ConstantsAssumption DEF RestOK, Fault

LEMMA RestClose ==
    ASSUME RestOK, Close
    PROVE  first' \in Nat /\ faults' \in 0..MaxFaults /\ active' = active /\ ended' = ended
<1>1. CASE bids = <<>> /\ status' = "UNSOLD"
           /\ UNCHANGED <<active, ended, bids, high, offer, current, win, stripe, closes, first, faults>>
  BY <1>1 DEF RestOK
<1>2. CASE /\ \E b \in Best : RankOf(b) = 1 /\ SendOffer(offer, Ranked, b, 1)
           /\ first' = current'
  BY <1>2 DEF RestOK, SendOffer, Session
<1>3. CASE RollBack /\ UNCHANGED first
  BY <1>3, RestFault DEF RollBack, RestOK, row
<1> QED
  BY <1>1, <1>2, <1>3 DEF Close

LEMMA RestAdvance ==
    ASSUME RestOK, NEW s, NEW st, Advance(s, st) \/ RollBack
    PROVE  faults' \in 0..MaxFaults /\ active' = active /\ ended' = ended
<1>1. CASE Advance(s, st)
  BY <1>1 DEF Advance, SendOffer, RestOK
<1>2. CASE RollBack
  BY <1>2, RestFault DEF RollBack, row
<1> QED
  BY <1>1, <1>2

LEMMA RestStep ==
    ASSUME RestOK, [Next]_vars
    PROVE  RestOK'
<1>1. \A d \in Donor, cents \in 1..MaxCents : PlaceBid(d, cents) => RestOK'
  BY DEF PlaceBid, RestOK
<1>2. SweepList => RestOK'
  BY DEF SweepList, RestOK, row
<1>3. SweepClose => RestOK'
  BY RestClose DEF SweepClose, RestOK, row
<1>4. \A s \in Session : Pay(s) \/ Expire(s) => RestOK'
  BY DEF Pay, Expire, RestOK, row
<1>5. \A s \in Session : HandleCompleted(s) => RestOK'
  BY DEF HandleCompleted, Settle, RestOK, row
<1>6. \A s \in Session : HandleExpired(s) => RestOK'
  <2> SUFFICES ASSUME NEW s \in Session, HandleExpired(s) PROVE RestOK'
    OBVIOUS
  <2>1. handled' \subseteq Session /\ UNCHANGED <<listed, editing, first>>
    BY DEF HandleExpired, RestOK
  <2>2. CASE Advance(current, "EXPIRED") \/ RollBack
    BY <2>1, <2>2, RestAdvance DEF RestOK
  <2>3. CASE UNCHANGED <<row, stripe, faults>>
    BY <2>1, <2>3 DEF RestOK, row
  <2> QED
    BY <2>2, <2>3 DEF HandleExpired
<1>7. ForceClose => RestOK'
  BY RestClose DEF ForceClose, RestOK
<1>8. SkipOffer => RestOK'
  BY RestAdvance DEF SkipOffer, RestOK
<1>9. Cancel \/ Reopen \/ Delete => RestOK'
  BY DEF Cancel, Reopen, Delete, RestOK
<1>10. EditRead \/ EditWrite => RestOK'
  BY DEF EditRead, EditWrite, RestOK, row
<1>11. Deadline => RestOK'
  BY DEF Deadline, RestOK
<1>12. Restart => RestOK'
  BY RestFault DEF Restart, RestOK, row
<1>13. UNCHANGED vars => RestOK'
  BY DEF vars, row, RestOK
<1> QED
  BY <1>1, <1>2, <1>3, <1>4, <1>5, <1>6, <1>7, <1>8, <1>9, <1>10, <1>11, <1>12, <1>13
     DEF Next, Webhook

\* Every variable of the auction keeps its type.
THEOREM TypeCorrect == Spec => []TypeOK
<1>1. Init => RestOK
  <2> SUFFICES ASSUME Init PROVE RestOK
    OBVIOUS
  <2>1. active \in BOOLEAN /\ ended \in BOOLEAN /\ listed \in BOOLEAN
    BY DEF Init
  <2>2. handled \subseteq Session /\ editing \in {"none", "open", "other"}
    BY DEF Init
  <2>3. first \in Nat /\ faults \in 0..MaxFaults
    BY ConstantsAssumption DEF Init
  <2> QED
    BY <2>1, <2>2, <2>3 DEF RestOK
<1>2. RestOK /\ [Next]_vars => RestOK'
  BY RestStep
<1>3. CoreOK /\ RestOK => TypeOK
  BY DEF CoreOK, RestOK, TypeOK, OfferType, OfferStatus
<1> QED
  BY <1>1, <1>2, <1>3, SaleCorrect, PTL DEF Spec

\* The schema's comment on current_bid_cents: it mirrors the bids, after bids,
\* cancelled cascades and reopenings too (placeBidTx, reopenAuctionTx).
THEOREM HighBidMirrorsHolds == Spec => []HighBidMirrors
<1>1. SaleInv => HighBidMirrors
  BY DEF SaleInv
<1> QED
  BY <1>1, SaleCorrect, PTL

\* sendOfferTx asks that no other offer is out, and no caller breaks that.
THEOREM OneLiveOfferHolds == Spec => []OneLiveOffer
<1>1. SaleInv => OneLiveOffer
  BY DEF SaleInv
<1> QED
  BY <1>1, SaleCorrect, PTL

\* handleAuctionWebhook compares the session with the current offer's: late and
\* duplicate events change no offer that is not theirs.
THEOREM OfferMirrorsStripeHolds == Spec => []OfferMirrorsStripe
<1>1. SaleInv => OfferMirrorsStripe
  BY DEF SaleInv
<1> QED
  BY <1>1, SaleCorrect, PTL

\* An auction has a win exactly when it is settled, by the one PAID offer and the
\* one WON bid (settleWinTx).
THEOREM SoldOnceHolds == Spec => []SoldOnce
<1>1. SaleInv => SoldOnce
  BY DEF SaleInv
<1> QED
  BY <1>1, SaleCorrect, PTL

\* No step of any actor touches a settled auction, its bids, offers or win.
THEOREM SettledIsFinalHolds == Spec => SettledIsFinal
<1> DEFINE Final == status = "SETTLED" => UNCHANGED <<status, bids, offer, current, win>>
<1>1. CoreOK /\ SaleInv /\ [Next]_vars => Final
  <2> SUFFICES ASSUME CoreOK, SaleInv, [Next]_vars, status = "SETTLED"
               PROVE  UNCHANGED <<status, bids, offer, current, win>>
    OBVIOUS
  <2>1. \A s \in Session : offer[s].status # "SENT"
    BY DEF SaleInv, OneLiveOffer
  <2>2. bids # <<>>
    <3>1. \A s \in Session : offer[s].status = "PAID" => offer[s].bid \in DOMAIN bids
      BY DEF SaleInv, OfferInv, Offered
    <3>2. \E s \in Session : offer[s].status = "PAID"
      BY DEF SaleInv, SoldOnce
    <3> QED
      BY <3>1, <3>2, BidsAreASequence DEF CoreOK
  <2>3. Quiet => UNCHANGED <<status, bids, offer, current, win>>
    BY DEF Quiet
  <2>4. ~ClosedEmpty /\ ~Cancelled /\ ~Reopened /\ ~Deleted
    BY <2>2 DEF ClosedEmpty, Cancelled, Reopened, Deleted
  <2>5. \A d \in Donor, cents \in 1..MaxCents : ~PlaceBid(d, cents)
    BY DEF PlaceBid
  <2>6. \A s \in Session, b \in Best : ~Opened(s, b)
    BY DEF Opened
  <2>7. \A s \in Session : ~Settled(s)
    BY <2>1 DEF Settled
  <2>8. \A s \in Session, st \in {"EXPIRED", "SKIPPED"} : ~Exhausted(s, st)
    BY <2>1 DEF Exhausted, Ends
  <2>9. \A s \in Session, st \in {"EXPIRED", "SKIPPED"}, t \in Session, b \in DOMAIN bids :
           ~Advanced(s, st, t, b)
    BY <2>1 DEF Advanced, Ends
  <2> QED
    BY <2>3, <2>4, <2>5, <2>6, <2>7, <2>8, <2>9, StepCases
<1>2. Spec => [][Final]_vars
  BY <1>1, SaleCorrect, PTL DEF Spec
<1> QED
  BY <1>2 DEF SettledIsFinal

-----------------------------------------------------------------------------
(* Ranks.                                                                  *)

LEMMA BetterOrder ==
    ASSUME bids \in Seq(Bid)
    PROVE  /\ \A i \in DOMAIN bids : ~Better(i, i)
           /\ \A i, j \in DOMAIN bids : i = j \/ Better(i, j) \/ Better(j, i)
           /\ \A i, j, k \in DOMAIN bids : Better(i, j) /\ Better(j, k) => Better(i, k)
<1>1. DOMAIN bids = 1..Len(bids) /\ Len(bids) \in Nat /\ \A i \in DOMAIN bids : bids[i] \in Bid
  BY BidsAreASequence
<1>2. \A i \in DOMAIN bids : bids[i].cents \in Int
  BY <1>1 DEF Bid
<1>3. DOMAIN bids \subseteq Int
  BY <1>1
<1> QED
  BY <1>2, <1>3 DEF Better

\* The bids that outrank i.
Above(i) == {j \in Best : Better(j, i)}

LEMMA RankLess ==
    ASSUME bids \in Seq(Bid), NEW i \in Best, NEW j \in Best, Better(i, j)
    PROVE  RankOf(i) < RankOf(j)
<1>1. Best \subseteq DOMAIN bids
  BY DEF Best
<1>2. /\ \A k \in Best : ~Better(k, k)
      /\ \A a, b, c \in Best : Better(a, b) /\ Better(b, c) => Better(a, c)
  BY <1>1, BetterOrder
<1>3. Above(i) \in SUBSET Above(j) /\ i \in Above(j) /\ i \notin Above(i)
  BY <1>2 DEF Above
<1>4. IsFiniteSet(Above(i)) /\ IsFiniteSet(Above(j))
  BY RankType DEF Above
<1>5. Cardinality(Above(i)) \in Nat /\ Cardinality(Above(j)) \in Nat
  BY <1>4, FS_CardinalityType
<1>6. /\ Cardinality(Above(i)) <= Cardinality(Above(j))
      /\ Cardinality(Above(j)) = Cardinality(Above(i)) => Above(j) = Above(i)
  BY <1>3, <1>4, FS_Subset
<1>7. Cardinality(Above(i)) < Cardinality(Above(j))
  BY <1>3, <1>5, <1>6
<1> QED
  BY <1>5, <1>7 DEF RankOf, Above

LEMMA RankOrder ==
    ASSUME bids \in Seq(Bid), NEW i \in Best, NEW j \in Best
    PROVE  /\ RankOf(i) = RankOf(j) => i = j
           /\ RankOf(i) < RankOf(j) <=> Better(i, j)
<1>1. i = j \/ Better(i, j) \/ Better(j, i)
  BY BetterOrder DEF Best
<1>2. Better(i, j) => RankOf(i) < RankOf(j)
  BY RankLess
<1>3. Better(j, i) => RankOf(j) < RankOf(i)
  BY RankLess
<1>4. RankOf(i) \in Nat /\ RankOf(j) \in Nat
  BY RankType
<1> QED
  BY <1>1, <1>2, <1>3, <1>4

\* No rank is left out: below the first there is a bid one rank higher.
LEMMA RankAbove ==
    ASSUME bids \in Seq(Bid), BidInv, NEW b \in Best, RankOf(b) # 1
    PROVE  \E c \in Best : RankOf(b) = RankOf(c) + 1
<1>1. DOMAIN bids = 1..Len(bids) /\ Len(bids) \in Nat /\ Best \subseteq DOMAIN bids
  BY BidsAreASequence DEF Best
<1>2. IsFiniteSet(Above(b)) /\ Cardinality(Above(b)) \in Nat
  BY RankType, FS_CardinalityType DEF Above
<1>3. Cardinality(Above(b)) # 0
  BY <1>2 DEF RankOf, Above
<1>4. Above(b) # {}
  BY <1>3, FS_EmptySet
<1>5. PICK c \in Above(b) : \A k \in Above(b) : c <= k
  <2>1. Above(b) \subseteq Nat
    BY <1>1 DEF Above
  <2> QED
    BY <1>4, <2>1, LeastNat
<1>6. c \in Best /\ Better(c, b)
  BY <1>5 DEF Above
<1>7. \A k \in Above(b) : k = c \/ Better(k, c)
  <2>1. ASSUME NEW k \in Above(b), k # c
        PROVE  Better(k, c)
    <3>1. k \in 1..Len(bids) /\ c \in 1..Len(bids) /\ c < k
      BY <1>1, <1>5, <1>6, <2>1 DEF Above
    <3>2. bids[c].cents < bids[k].cents
      BY <1>1, <3>1 DEF BidInv
    <3>3. bids[c].cents \in Nat /\ bids[k].cents \in Nat
      <4>1. bids[c] \in Bid /\ bids[k] \in Bid
        BY <3>1, BidsAreASequence
      <4> QED
        BY <4>1 DEF Bid
    <3> QED
      BY <3>2, <3>3 DEF Better
  <2> QED
    BY <2>1
<1>8. Above(c) = Above(b) \ {c}
  <2>1. ASSUME NEW k \in Best, Better(k, c) PROVE Better(k, b) /\ k # c
    BY <1>1, <1>6, <2>1, BetterOrder
  <2> QED
    BY <1>7, <2>1 DEF Above
<1>9. Cardinality(Above(c)) = Cardinality(Above(b)) - 1
  BY <1>2, <1>8, FS_RemoveElement
<1>10. RankOf(b) = RankOf(c) + 1
  BY <1>2, <1>9 DEF RankOf, Above
<1> QED
  BY <1>6, <1>10

\* When no bid has the rank after r, no bid has a later one.
LEMMA RankLast ==
    ASSUME bids \in Seq(Bid), BidInv, NEW r \in Nat, r >= 1,
           \A i \in Best : RankOf(i) # r + 1
    PROVE  \A i \in Best : RankOf(i) <= r
<1>1. \A i \in Best : RankOf(i) \in Nat
  BY RankType
<1>2. SUFFICES ASSUME NEW i \in Best, RankOf(i) > r PROVE FALSE
  BY <1>1
<1> DEFINE Later == {n \in Nat : n > r /\ \E j \in Best : RankOf(j) = n}
<1>3. RankOf(i) \in Later
  BY <1>1, <1>2
<1>4. Later \subseteq Nat /\ Later # {}
  BY <1>3
<1> HIDE DEF Later
<1>5. PICK m \in Later : \A n \in Later : m <= n
  BY <1>4, LeastNat
<1> USE DEF Later
<1>6. PICK b \in Best : RankOf(b) = m /\ m > r
  BY <1>5
<1>7. PICK c \in Best : RankOf(b) = RankOf(c) + 1
  BY <1>1, <1>6, RankAbove
<1>8. RankOf(c) \in Later
  BY <1>1, <1>6, <1>7
<1> QED
  BY <1>1, <1>5, <1>6, <1>7, <1>8

\* Ranks depend on donors and prices only, which only a new bid changes.
LEMMA RankKept ==
    ASSUME bids \in Seq(Bid), DOMAIN bids' = DOMAIN bids,
           \A i \in DOMAIN bids : /\ bids'[i].donor = bids[i].donor
                                  /\ bids'[i].cents = bids[i].cents
    PROVE  /\ Best' = Best
           /\ \A i \in DOMAIN bids : RankOf(i)' = RankOf(i)
           /\ \A i, j \in DOMAIN bids : Better(i, j)' <=> Better(i, j)
<1>1. \A i, j \in DOMAIN bids : Better(i, j)' <=> Better(i, j)
  BY DEF Better
<1>2. Best' = Best
  BY <1>1 DEF Best
<1>3. \A i \in DOMAIN bids : {j \in Best' : Better(j, i)'} = {j \in Best : Better(j, i)}
  BY <1>1, <1>2 DEF Best
<1>4. \A i \in DOMAIN bids : RankOf(i)' = RankOf(i)
  BY <1>3 DEF RankOf
<1> QED
  BY <1>1, <1>2, <1>4

-----------------------------------------------------------------------------
(* The cascade.                                                            *)

LEMMA SessionOpens ==
    ASSUME CoreOK, SessionInv, NEW s \in Session, Opens(s),
           Offered' \subseteq Offered \cup {s}
    PROVE  SessionInv' /\ \A t \in Offered : t < s
<1>1. /\ stripe[s] = "unused"
      /\ \A t \in Session : t < s => stripe[t] # "unused"
      /\ \A t \in Session : stripe'[t] = IF t = s THEN "open" ELSE stripe[t]
  BY OpensIs
<1>2. Session \subseteq Int
  BY DEF Session
<1>3. \A t \in Offered : t \in Session /\ t < s
  BY <1>1, <1>2 DEF SessionInv, Offered
<1>4. \A t, u \in Session : t < u /\ stripe'[t] = "unused" => stripe'[u] = "unused"
  BY <1>1, <1>2 DEF SessionInv
<1>5. \A t \in Offered' : stripe'[t] # "unused"
  BY <1>1, <1>3 DEF SessionInv
<1> QED
  BY <1>3, <1>4, <1>5 DEF SessionInv

LEMMA SessionFrame ==
    ASSUME CoreOK, SessionInv, Offered' \subseteq Offered,
           \/ UNCHANGED stripe
           \/ \E s \in Session, x \in {"paid", "expired"} :
                 stripe[s] = "open" /\ stripe' = [stripe EXCEPT ![s] = x]
    PROVE  SessionInv'
<1>1. \A s \in Session : stripe'[s] = "unused" <=> stripe[s] = "unused"
  BY DEF CoreOK
<1>2. \A s \in Offered : s \in Session
  BY DEF Offered
<1> QED
  BY <1>1, <1>2 DEF SessionInv

LEMMA BidFrame ==
    ASSUME BidInv, bids \in Seq(Bid), DOMAIN bids' = DOMAIN bids,
           \A i \in DOMAIN bids : /\ bids'[i].donor = bids[i].donor
                                  /\ bids'[i].cents = bids[i].cents
    PROVE  BidInv'
<1>1. Best' = Best /\ Best \subseteq DOMAIN bids
  BY RankKept DEF Best
<1> QED
  BY <1>1 DEF BidInv

LEMMA CascadeQuiet ==
    ASSUME CoreOK, CascadeInv, Quiet
    PROVE  CascadeInv'
<1>1. UNCHANGED <<status, bids, offer, closes>>
  BY DEF Quiet
<1>2. BidInv'
  BY <1>1, BidFrame DEF CascadeInv, CoreOK
<1>3. Offered' = Offered
  BY <1>1 DEF Offered
<1>4. SessionInv'
  <2>1. SessionInv
    BY DEF CascadeInv
  <2>2. CASE \E s \in Session : Opens(s)
    BY <1>3, <2>1, <2>2, SessionOpens
  <2>3. CASE \/ UNCHANGED stripe
             \/ \E s \in Session, x \in {"paid", "expired"} :
                   stripe[s] = "open" /\ stripe' = [stripe EXCEPT ![s] = x]
    BY <1>3, <2>1, <2>3, SessionFrame
  <2> QED
    BY <2>2, <2>3 DEF Quiet
<1>5. FirstInv'
  <2>1. /\ Best' = Best /\ Best \subseteq DOMAIN bids
        /\ \A i \in DOMAIN bids : RankOf(i)' = RankOf(i)
    BY <1>1, RankKept DEF CoreOK, Best
  <2>2. RankByRank => RankByRank'
    BY <1>1, <1>3, <2>1 DEF RankByRank
  <2> QED
    BY <1>1, <1>3, <2>2 DEF CascadeInv, FirstInv, FirstCascade
<1> QED
  BY <1>2, <1>4, <1>5 DEF CascadeInv

\* A step that leaves the bids alone and ends outside a first cascade.
LEMMA CascadeOutside ==
    ASSUME CoreOK, CascadeInv, UNCHANGED <<bids, stripe, closes>>, Offered' = Offered,
           ~FirstCascade'
    PROVE  CascadeInv'
<1>1. BidInv'
  BY BidFrame DEF CascadeInv, CoreOK
<1>2. SessionInv'
  BY SessionFrame DEF CascadeInv
<1>3. FirstInv'
  BY DEF CascadeInv, FirstInv
<1> QED
  BY <1>1, <1>2, <1>3 DEF CascadeInv

LEMMA CascadeCancelled ==
    ASSUME CoreOK, SaleInv, CascadeInv, Cancelled
    PROVE  CascadeInv'
<1>1. \A s \in Session : s = current => offer[s].status = "SENT"
  BY DEF SaleInv, OneLiveOffer, OfferInv, None, Session
<1>2. \A t \in Session :
         offer'[t].status = IF t = current THEN "SKIPPED" ELSE offer[t].status
  BY CancelledIs
<1>3. Offered' = Offered
  BY <1>1, <1>2 DEF Offered
<1> QED
  BY <1>3, CascadeOutside DEF Cancelled, FirstCascade

\* A new bid is better than all before it, and its donor's only best one.
LEMMA CascadePlaced ==
    ASSUME CoreOK, SaleInv, CascadeInv,
           NEW d \in Donor, NEW cents \in 1..MaxCents, PlaceBid(d, cents)
    PROVE  CascadeInv'
<1>1. bids \in Seq(Bid) /\ high \in [cents : 0..MaxCents, donor : Donor \cup {"none"}]
  BY DEF CoreOK
<1>2. PICK n \in Nat : n = Len(bids)
  BY <1>1, LenProperties
<1>3. PICK m \in Nat : m = n + 1
  OBVIOUS
<1>4. /\ n \in Nat /\ DOMAIN bids = 1..n /\ DOMAIN bids' = 1..m
      /\ bids' \in Seq(Bid) /\ Len(bids') = m
      /\ \A i \in DOMAIN bids :
            /\ bids'[i].donor = bids[i].donor /\ bids'[i].cents = bids[i].cents
            /\ bids'[i].rank = bids[i].rank
  BY <1>1, <1>2, <1>3, PlacedIs, BidsAreASequence
<1>5. /\ DOMAIN bids' = DOMAIN bids \cup {m} /\ m \notin DOMAIN bids
      /\ DOMAIN bids \subseteq Nat /\ m \in Nat /\ \A i \in DOMAIN bids : i < m
  BY <1>3, <1>4
<1>6. /\ bids'[m].donor = d /\ bids'[m].cents = cents /\ bids'[m].rank = None
  <2>1. bids'[m] = [donor |-> d, cents |-> cents, rank |-> None, status |-> "ACTIVE"]
    BY <1>1, <1>2, <1>3, PlacedIs
  <2> QED
    BY <2>1
<1>7. UNCHANGED <<status, offer, stripe, closes>> /\ status = "OPEN" /\ cents > high.cents
  BY DEF PlaceBid, Beats
<1>8. \A i \in DOMAIN bids : bids[i].cents \in Nat /\ bids[i].cents < cents
  <2>1. \A i \in DOMAIN bids : bids[i].cents \in Nat
    <3>1. \A i \in DOMAIN bids : bids[i] \in Bid
      BY <1>1, BidsAreASequence
    <3> QED
      BY <3>1 DEF Bid
  <2>2. high.cents \in Nat /\ \A i \in DOMAIN bids : bids[i].cents <= high.cents
    BY <1>1, ConstantsAssumption DEF SaleInv, HighBidMirrors
  <2> QED
    BY <1>7, <2>1, <2>2
<1>9. \A i, j \in DOMAIN bids' : i < j => bids'[i].cents < bids'[j].cents
  <2> SUFFICES ASSUME NEW i \in DOMAIN bids', NEW j \in DOMAIN bids', i < j
               PROVE  bids'[i].cents < bids'[j].cents
    OBVIOUS
  <2>1. i \in DOMAIN bids /\ (j \in DOMAIN bids \/ j = m)
    BY <1>5
  <2> QED
    BY <1>4, <1>6, <1>8, <2>1 DEF CascadeInv, BidInv
<1>10. m \in Best'
  <2>1. \A j \in DOMAIN bids' : j = m \/ j \in DOMAIN bids
    BY <1>5
  <2>2. \A j \in DOMAIN bids : Better(m, j)'
    BY <1>4, <1>6, <1>8 DEF Better
  <2> QED
    BY <1>5, <2>1, <2>2 DEF Best
<1>11. \A b \in Best : bids[b].donor # d => b \in Best'
  <2> SUFFICES ASSUME NEW b \in Best, bids[b].donor # d,
                      NEW j \in DOMAIN bids', bids'[j].donor = bids'[b].donor
               PROVE  j = b \/ Better(b, j)'
    BY <1>5 DEF Best
  <2>1. b \in DOMAIN bids /\ j \in DOMAIN bids
    BY <1>4, <1>5, <1>6 DEF Best
  <2>2. j = b \/ Better(b, j)
    BY <1>4, <2>1 DEF Best
  <2> QED
    BY <1>4, <2>1, <2>2 DEF Better
<1>12. \A i \in DOMAIN bids' : \E b \in Best' : bids'[b].donor = bids'[i].donor
  <2> SUFFICES ASSUME NEW i \in DOMAIN bids'
               PROVE  \E b \in Best' : bids'[b].donor = bids'[i].donor
    OBVIOUS
  <2>1. CASE bids'[i].donor = d
    BY <1>6, <1>10, <2>1
  <2>2. CASE bids'[i].donor # d
    <3>1. i \in DOMAIN bids
      BY <1>5, <1>6, <2>2
    <3>2. PICK b \in Best : bids[b].donor = bids[i].donor
      BY <3>1 DEF CascadeInv, BidInv
    <3>3. b \in DOMAIN bids
      BY DEF Best
    <3> QED
      BY <1>4, <1>11, <2>2, <3>1, <3>2, <3>3
  <2> QED
    BY <2>1, <2>2
<1>13. Offered' = Offered
  BY <1>7 DEF Offered
<1>14. SessionInv'
  BY <1>7, <1>13, SessionFrame DEF CascadeInv
<1>15. FirstInv'
  <2>1. ~FirstCascade'
    BY <1>7 DEF FirstCascade
  <2>2. bids' # <<>>
    BY <1>3, <1>4, BidsAreASequence
  <2>3. closes' = 0 => \A i \in DOMAIN bids' : bids'[i].rank = None
    <3>1. closes = 0 => \A i \in DOMAIN bids : bids[i].rank = None
      BY DEF CascadeInv, FirstInv
    <3>2. \A j \in DOMAIN bids' : j = m \/ j \in DOMAIN bids
      BY <1>5
    <3> QED
      BY <1>4, <1>6, <1>7, <3>1, <3>2
  <2> QED
    BY <1>7, <1>13, <2>1, <2>2, <2>3 DEF CascadeInv, FirstInv
<1> QED
  BY <1>9, <1>12, <1>14, <1>15 DEF CascadeInv, BidInv

\* closeAuctionTx: the first close stamps the ranks and offers to the first.
LEMMA CascadeOpened ==
    ASSUME CoreOK, CascadeInv, NEW s \in Session, NEW b \in Best, Opened(s, b)
    PROVE  CascadeInv'
<1>1. /\ b \in DOMAIN bids /\ DOMAIN bids' = DOMAIN bids /\ bids' \in Seq(Bid)
      /\ \A i \in DOMAIN bids :
            /\ bids'[i].donor = bids[i].donor /\ bids'[i].cents = bids[i].cents
            /\ bids'[i].rank = IF i \in Best THEN RankOf(i) ELSE bids[i].rank
  BY OpenedIs
<1>2. \A t \in Session :
         offer'[t] = IF t = s THEN [bid |-> b, rank |-> 1, status |-> "SENT"] ELSE offer[t]
  BY OpenedIs
<1>3. RankOf(b) = 1 /\ closes' = closes + 1 /\ status' = "AWAITING_PAYMENT" /\ Opens(s)
  BY DEF Opened
<1>4. /\ Best' = Best /\ Best \subseteq DOMAIN bids
      /\ \A i \in DOMAIN bids : RankOf(i)' = RankOf(i)
  BY <1>1, RankKept DEF CoreOK, Best
<1>5. BidInv'
  BY <1>1, BidFrame DEF CoreOK, CascadeInv
<1>6. /\ Offered' = Offered \cup {s} /\ offer'[s].bid = b /\ offer'[s].rank = 1
  BY <1>2 DEF Offered
<1>7. SessionInv'
  BY <1>3, <1>6, SessionOpens DEF CascadeInv
<1>8. FirstInv'
  <2>1. closes' # 0
    BY <1>3 DEF CoreOK
  <2>2. bids' # <<>>
    BY <1>1, BidsAreASequence
  <2>3. ASSUME closes = 0 PROVE RankByRank'
    <3>1. Offered' = {s} /\ \A i \in DOMAIN bids : bids[i].rank = None
      BY <1>6, <2>3 DEF CascadeInv, FirstInv
    <3>2. \A i \in DOMAIN bids' : bids'[i].rank = IF i \in Best' THEN RankOf(i)' ELSE None
      BY <1>1, <1>4, <3>1
    <3>3. \A t \in Offered' :
             t = s /\ offer'[t].bid \in Best' /\ offer'[t].rank = RankOf(b)'
      BY <1>1, <1>3, <1>4, <1>6, <3>1
    <3>4. \A t \in Offered' : \A r \in 1..offer'[t].rank : \E u \in Offered' : offer'[u].rank = r
      BY <1>6, <3>1
    <3>5. ~(s < s)
      BY DEF Session
    <3> QED
      BY <1>3, <1>6, <3>1, <3>2, <3>3, <3>4, <3>5 DEF RankByRank
  <2>4. FirstCascade' => closes = 0
    BY <1>3 DEF FirstCascade, CoreOK
  <2> QED
    BY <2>1, <2>2, <2>3, <2>4 DEF FirstInv
<1> QED
  BY <1>5, <1>7, <1>8 DEF CascadeInv

\* The offer that is out is the last one, and closing it keeps the order.
LEMMA RankClosed ==
    ASSUME CoreOK, RankByRank, NEW s \in Session, offer[s].status = "SENT",
           DOMAIN bids' = DOMAIN bids,
           \A i \in DOMAIN bids :
              /\ bids'[i].donor = bids[i].donor /\ bids'[i].cents = bids[i].cents
              /\ bids'[i].rank = bids[i].rank,
           \A t \in Session :
              /\ offer'[t].bid = offer[t].bid /\ offer'[t].rank = offer[t].rank
              /\ offer'[t].status = "NONE" <=> offer[t].status = "NONE"
              /\ t # s => offer'[t].status = offer[t].status,
           status' = "UNSOLD" => \A i \in DOMAIN bids : bids[i].rank # Follows(offer[s].rank)
    PROVE  RankByRank'
<1>1. /\ Best' = Best /\ Best \subseteq DOMAIN bids
      /\ \A i \in DOMAIN bids : RankOf(i)' = RankOf(i)
  BY RankKept DEF CoreOK, Best
<1>2. Offered' = Offered /\ s \in Offered /\ Offered \subseteq Session
  BY DEF Offered
<1>3. \A i \in DOMAIN bids' : bids'[i].rank = IF i \in Best' THEN RankOf(i)' ELSE None
  BY <1>1 DEF RankByRank
<1>4. ASSUME NEW t \in Offered'
      PROVE  offer'[t].bid \in Best' /\ offer'[t].rank = RankOf(offer[t].bid)'
  <2>1. PICK b \in Best : offer[t].bid = b /\ offer[t].rank = RankOf(b)
    BY <1>2 DEF RankByRank
  <2>2. offer'[t].bid = b /\ offer'[t].rank = RankOf(b)'
    BY <1>1, <1>2, <2>1
  <2>3. RankOf(offer[t].bid)' = RankOf(b)'
    BY <2>2
  <2> QED
    BY <1>1, <2>2, <2>3
<1>5. \A t \in Offered' : \A r \in 1..offer'[t].rank : \E u \in Offered' : offer'[u].rank = r
  BY <1>2 DEF RankByRank
<1>6. \A t, u \in Offered' : t < u =>
         offer'[t].rank < offer'[u].rank /\ offer'[t].status \in {"EXPIRED", "SKIPPED"}
  BY <1>2 DEF RankByRank
<1>7. status' = "UNSOLD" => \E t \in Offered' : \A i \in DOMAIN bids' :
         bids'[i].rank # Follows(offer'[t].rank)
  BY <1>2
<1> QED
  BY <1>3, <1>4, <1>5, <1>6, <1>7 DEF RankByRank

LEMMA CascadeSettled ==
    ASSUME CoreOK, SaleInv, CascadeInv, NEW s \in Session, Settled(s)
    PROVE  CascadeInv'
<1>1. /\ offer[s].status = "SENT" /\ status' = "SETTLED" /\ UNCHANGED <<stripe, closes>>
  BY DEF Settled
<1>2. offer[s].bid \in DOMAIN bids /\ status = "AWAITING_PAYMENT"
  BY <1>1, LiveOffer
<1>3. /\ DOMAIN bids' = DOMAIN bids /\ bids' \in Seq(Bid)
      /\ \A i \in DOMAIN bids :
            /\ bids'[i].donor = bids[i].donor /\ bids'[i].cents = bids[i].cents
            /\ bids'[i].rank = bids[i].rank
  BY <1>2, SettledIs
<1>4. \A t \in Session :
         /\ offer'[t].bid = offer[t].bid /\ offer'[t].rank = offer[t].rank
         /\ offer'[t].status = IF t = s THEN "PAID" ELSE offer[t].status
  BY <1>2, SettledIs
<1>5. Offered' = Offered /\ BidInv'
  BY <1>1, <1>3, <1>4, BidFrame DEF Offered, CascadeInv, CoreOK
<1>6. SessionInv'
  BY <1>1, <1>5, SessionFrame DEF CascadeInv
<1>7. RankByRank => RankByRank'
  BY <1>1, <1>3, <1>4, RankClosed
<1>8. FirstInv'
  <2>1. bids' = <<>> <=> bids = <<>>
    BY <1>2, <1>3, BidsAreASequence DEF CoreOK
  <2>2. FirstCascade' => FirstCascade
    BY <1>1, <1>2 DEF FirstCascade
  <2> QED
    BY <1>1, <1>3, <1>5, <1>7, <2>1, <2>2 DEF CascadeInv, FirstInv
<1> QED
  BY <1>5, <1>6, <1>8 DEF CascadeInv

LEMMA CascadeExhausted ==
    ASSUME CoreOK, SaleInv, CascadeInv, NEW s \in Session,
           NEW st \in {"EXPIRED", "SKIPPED"}, Exhausted(s, st)
    PROVE  CascadeInv'
<1>1. /\ offer[s].status = "SENT" /\ status' = "UNSOLD" /\ UNCHANGED <<stripe, closes>>
      /\ \A i \in DOMAIN bids : bids[i].rank # Follows(offer[s].rank)
  BY DEF Exhausted, Ends
<1>2. offer[s].bid \in DOMAIN bids /\ status = "AWAITING_PAYMENT"
  BY <1>1, LiveOffer
<1>3. /\ DOMAIN bids' = DOMAIN bids /\ bids' \in Seq(Bid)
      /\ \A i \in DOMAIN bids :
            /\ bids'[i].donor = bids[i].donor /\ bids'[i].cents = bids[i].cents
            /\ bids'[i].rank = bids[i].rank
  BY <1>2, ExhaustedIs
<1>4. \A t \in Session :
         /\ offer'[t].bid = offer[t].bid /\ offer'[t].rank = offer[t].rank
         /\ offer'[t].status = IF t = s THEN st ELSE offer[t].status
  BY <1>2, ExhaustedIs
<1>5. Offered' = Offered /\ BidInv'
  BY <1>1, <1>3, <1>4, BidFrame DEF Offered, CascadeInv, CoreOK
<1>6. SessionInv'
  BY <1>1, <1>5, SessionFrame DEF CascadeInv
<1>7. RankByRank => RankByRank'
  BY <1>1, <1>3, <1>4, RankClosed
<1>8. FirstInv'
  <2>1. bids' = <<>> <=> bids = <<>>
    BY <1>2, <1>3, BidsAreASequence DEF CoreOK
  <2>2. FirstCascade' => FirstCascade
    BY <1>1, <1>2 DEF FirstCascade
  <2> QED
    BY <1>1, <1>3, <1>5, <1>7, <2>1, <2>2 DEF CascadeInv, FirstInv
<1> QED
  BY <1>5, <1>6, <1>8 DEF CascadeInv

\* advanceToNextRankTx: the next rank gets the next session.
LEMMA CascadeAdvanced ==
    ASSUME CoreOK, SaleInv, CascadeInv, NEW s \in Session, NEW st \in {"EXPIRED", "SKIPPED"},
           NEW t \in Session, NEW b \in DOMAIN bids, Advanced(s, st, t, b)
    PROVE  CascadeInv'
<1>1. /\ offer[s].status = "SENT" /\ status' = "AWAITING_PAYMENT" /\ UNCHANGED closes
      /\ bids[b].rank = Follows(offer[s].rank) /\ Opens(t)
  BY DEF Advanced, Ends
<1>2. offer[s].bid \in DOMAIN bids /\ status = "AWAITING_PAYMENT"
  BY <1>1, LiveOffer
<1>3. /\ DOMAIN bids' = DOMAIN bids /\ bids' \in Seq(Bid)
      /\ \A i \in DOMAIN bids :
            /\ bids'[i].donor = bids[i].donor /\ bids'[i].cents = bids[i].cents
            /\ bids'[i].rank = bids[i].rank
  BY <1>2, AdvancedIs
<1>4. \A u \in Session :
         /\ offer'[u].bid = IF u = t THEN b ELSE offer[u].bid
         /\ offer'[u].rank = IF u = t THEN Follows(offer[s].rank) ELSE offer[u].rank
         /\ offer'[u].status = IF u = t THEN "SENT" ELSE IF u = s THEN st ELSE offer[u].status
  BY <1>2, AdvancedIs
<1>5. s \in Offered /\ Offered' = Offered \cup {t}
  BY <1>1, <1>4 DEF Offered
<1>6. SessionInv' /\ \A u \in Offered : u < t
  BY <1>1, <1>5, SessionOpens DEF CascadeInv
<1>7. BidInv'
  BY <1>3, BidFrame DEF CascadeInv, CoreOK
<1>8. ASSUME RankByRank PROVE RankByRank'
  <2>1. /\ Best' = Best /\ Best \subseteq DOMAIN bids
        /\ \A i \in DOMAIN bids : RankOf(i)' = RankOf(i)
    BY <1>3, RankKept DEF CoreOK, Best
  <2>2. PICK r \in Nat : r = offer[s].rank
    BY DEF CoreOK, OfferType
  <2>3. bids[b].rank = r + 1 /\ b \in Best /\ RankOf(b) = r + 1
    BY <1>1, <1>8, <2>2 DEF RankByRank, Follows, None
  <2>4. Offered \subseteq Session /\ Session \subseteq Nat /\ t \notin Offered /\ t \in Nat
    BY <1>6 DEF Offered, Session
  <2>5. \A u \in Offered : offer'[u].bid = offer[u].bid /\ offer'[u].rank = offer[u].rank
    BY <1>4, <2>4
  <2>6. offer'[t].bid = b /\ offer'[t].rank = r + 1
    BY <1>4, <2>2 DEF Follows
  <2>7. \A i \in DOMAIN bids' : bids'[i].rank = IF i \in Best' THEN RankOf(i)' ELSE None
    BY <1>3, <1>8, <2>1 DEF RankByRank
  <2>8. ASSUME NEW u \in Offered'
        PROVE  offer'[u].bid \in Best' /\ offer'[u].rank = RankOf(offer[u].bid)'
    <3>1. PICK c \in Best : offer'[u].bid = c /\ offer'[u].rank = RankOf(c)
      BY <1>5, <1>8, <2>3, <2>5, <2>6 DEF RankByRank
    <3>2. RankOf(offer[u].bid)' = RankOf(c)'
      BY <3>1
    <3> QED
      BY <2>1, <3>1, <3>2
  <2>9. ASSUME NEW u \in Offered', NEW q \in 1..offer'[u].rank
        PROVE  \E v \in Offered' : offer'[v].rank = q
    <3>1. CASE u \in Offered
      <4>1. PICK v \in Offered : offer[v].rank = q
        BY <1>8, <2>5, <2>9, <3>1 DEF RankByRank
      <4> QED
        BY <1>5, <2>5, <4>1
    <3>2. CASE u = t /\ q = r + 1
      BY <1>5, <2>6, <3>2
    <3>3. CASE u = t /\ q # r + 1
      <4>1. q \in 1..offer[s].rank
        BY <2>2, <2>6, <2>9, <3>3
      <4>2. PICK v \in Offered : offer[v].rank = q
        BY <1>5, <1>8, <4>1 DEF RankByRank
      <4> QED
        BY <1>5, <2>5, <4>2
    <3> QED
      BY <1>5, <3>1, <3>2, <3>3
  <2>10. ASSUME NEW u \in Offered', NEW v \in Offered', u < v
         PROVE  offer'[u].rank < offer'[v].rank /\ offer'[u].status \in {"EXPIRED", "SKIPPED"}
    <3>1. u \in Offered
      <4>1. u # t
        BY <1>5, <1>6, <2>4, <2>10
      <4> QED
        BY <1>5, <4>1
    <3>2. CASE v \in Offered
      <4>1. /\ offer[u].rank < offer[v].rank
            /\ offer[u].status \in {"EXPIRED", "SKIPPED"}
        BY <1>8, <2>10, <3>1, <3>2 DEF RankByRank
      <4> QED
        BY <1>1, <1>4, <2>4, <2>5, <3>1, <3>2, <4>1
    <3>3. CASE v = t
      <4>1. CASE u = s
        BY <1>4, <2>2, <2>4, <2>5, <2>6, <3>1, <3>3, <4>1
      <4>2. CASE u # s
        <5>1. ~(s < u)
          BY <1>1, <1>5, <1>8, <3>1 DEF RankByRank
        <5>2. u < s
          BY <1>5, <2>4, <3>1, <4>2, <5>1
        <5>3. /\ offer[u].rank < offer[s].rank
              /\ offer[u].status \in {"EXPIRED", "SKIPPED"}
          BY <1>5, <1>8, <3>1, <5>2 DEF RankByRank
        <5>4. offer[u].rank \in Nat
          BY <2>4, <3>1 DEF CoreOK, OfferType
        <5>5. offer'[u].status = offer[u].status
          BY <1>4, <2>4, <3>1, <4>2
        <5>6. offer'[u].rank < offer'[v].rank
          BY <2>2, <2>5, <2>6, <3>1, <3>3, <5>3, <5>4
        <5> QED
          BY <5>3, <5>5, <5>6
      <4> QED
        BY <4>1, <4>2
    <3> QED
      BY <1>5, <3>2, <3>3
  <2> QED
    BY <1>1, <2>7, <2>8, <2>9, <2>10 DEF RankByRank
<1>9. FirstInv'
  <2>1. bids' = <<>> <=> bids = <<>>
    BY <1>2, <1>3, BidsAreASequence DEF CoreOK
  <2>2. FirstCascade' => FirstCascade
    BY <1>1, <1>2 DEF FirstCascade
  <2>3. closes # 0
    BY <1>5 DEF CascadeInv, FirstInv
  <2> QED
    BY <1>1, <1>8, <2>1, <2>2, <2>3 DEF CascadeInv, FirstInv
<1> QED
  BY <1>6, <1>7, <1>9 DEF CascadeInv

LEMMA CascadeStep ==
    ASSUME CoreOK, SaleInv, CascadeInv, [Next]_vars
    PROVE  CascadeInv'
<1>1. Quiet => CascadeInv'
  BY CascadeQuiet
<1>2. ClosedEmpty => CascadeInv'
  <2> SUFFICES ASSUME ClosedEmpty PROVE CascadeInv'
    OBVIOUS
  <2>1. UNCHANGED <<bids, offer, stripe, closes>> /\ bids = <<>>
    BY DEF ClosedEmpty
  <2>2. closes = 0 /\ Offered' = Offered
    BY <2>1 DEF CascadeInv, FirstInv, Offered
  <2>3. ~FirstCascade'
    BY <2>1, <2>2 DEF FirstCascade
  <2> QED
    BY <2>1, <2>2, <2>3, CascadeOutside
<1>3. Cancelled => CascadeInv'
  BY CascadeCancelled
<1>4. Reopened \/ Deleted => CascadeInv'
  <2> SUFFICES ASSUME Reopened \/ Deleted PROVE CascadeInv'
    OBVIOUS
  <2>1. UNCHANGED <<bids, offer, stripe, closes>> /\ status' \in {"OPEN", "DELETED"}
    BY DEF Reopened, Deleted
  <2>2. Offered' = Offered /\ ~FirstCascade'
    BY <2>1 DEF Offered, FirstCascade
  <2> QED
    BY <2>1, <2>2, CascadeOutside
<1>5. \A d \in Donor, cents \in 1..MaxCents : PlaceBid(d, cents) => CascadeInv'
  BY CascadePlaced
<1>6. \A s \in Session, b \in Best : Opened(s, b) => CascadeInv'
  BY CascadeOpened
<1>7. \A s \in Session : Settled(s) => CascadeInv'
  BY CascadeSettled
<1>8. \A s \in Session, st \in {"EXPIRED", "SKIPPED"} : Exhausted(s, st) => CascadeInv'
  BY CascadeExhausted
<1>9. \A s \in Session, st \in {"EXPIRED", "SKIPPED"}, t \in Session, b \in DOMAIN bids :
         Advanced(s, st, t, b) => CascadeInv'
  BY CascadeAdvanced
<1> QED
  BY <1>1, <1>2, <1>3, <1>4, <1>5, <1>6, <1>7, <1>8, <1>9, StepCases

LEMMA CascadeInit == Init => CascadeInv
<1> SUFFICES ASSUME Init PROVE CascadeInv
  OBVIOUS
<1>1. bids = <<>> /\ closes = 0 /\ DOMAIN bids = {}
  BY DEF Init
<1>2. Offered = {}
  BY DEF Init, Offered, NoOffer
<1>3. BidInv
  BY <1>1 DEF BidInv
<1>4. SessionInv
  BY <1>2 DEF SessionInv, Init
<1>5. FirstInv
  BY <1>1, <1>2 DEF FirstInv, FirstCascade
<1> QED
  BY <1>3, <1>4, <1>5 DEF CascadeInv

\* rankBids, closeAuctionTx and advanceToNextRankTx keep the order of the first
\* cascade, whatever webhooks, staff, sweeps and rolled-back transactions do.
THEOREM CascadeCorrect == Spec => []CascadeInv
<1>1. CoreOK /\ SaleInv /\ CascadeInv /\ [Next]_vars => CascadeInv'
  BY CascadeStep
<1> QED
  BY <1>1, CascadeInit, SaleCorrect, PTL DEF Spec

\* A rank that has had an offer is the bid's.
LEMMA OfferOfRank ==
    ASSUME CoreOK, RankByRank, NEW t \in Offered, NEW b \in Best, offer[t].rank = RankOf(b)
    PROVE  offer[t].bid = b
<1>1. PICK c \in Best : offer[t].bid = c /\ offer[t].rank = RankOf(c)
  BY DEF RankByRank
<1> QED
  BY <1>1, RankOrder DEF CoreOK

LEMMA OrderOfOffers ==
    ASSUME CoreOK, RankByRank
    PROVE  \A s \in Offered :
              /\ \A i \in DOMAIN bids : bids[i].donor = Payer(s) => ~Better(i, offer[s].bid)
              /\ \A i \in Best : Better(i, offer[s].bid) =>
                    \E t \in Offered : t < s /\ offer[t].bid = i
                                       /\ offer[t].status \in {"EXPIRED", "SKIPPED"}
              /\ \A t \in Offered : Payer(t) = Payer(s) => t = s
<1> SUFFICES ASSUME NEW s \in Offered
             PROVE  /\ \A i \in DOMAIN bids :
                          bids[i].donor = Payer(s) => ~Better(i, offer[s].bid)
                    /\ \A i \in Best : Better(i, offer[s].bid) =>
                          \E t \in Offered : t < s /\ offer[t].bid = i
                                             /\ offer[t].status \in {"EXPIRED", "SKIPPED"}
                    /\ \A t \in Offered : Payer(t) = Payer(s) => t = s
  OBVIOUS
<1>1. bids \in Seq(Bid) /\ Best \subseteq DOMAIN bids /\ Offered \subseteq Nat
  BY DEF CoreOK, Best, Offered, Session
<1>2. \A i \in Best : RankOf(i) \in Nat /\ RankOf(i) >= 1
  BY <1>1, RankType
<1>3. PICK b \in Best : offer[s].bid = b /\ offer[s].rank = RankOf(b) /\ bids[b].donor = Payer(s)
  BY DEF RankByRank, Payer
<1>4. ASSUME NEW i \in DOMAIN bids, bids[i].donor = Payer(s)
      PROVE  ~Better(i, b)
  <2>1. i = b \/ Better(b, i)
    BY <1>3, <1>4 DEF Best
  <2> QED
    BY <1>1, <2>1, BetterOrder
<1>5. ASSUME NEW i \in Best, Better(i, b)
      PROVE  \E t \in Offered : t < s /\ offer[t].bid = i
                                /\ offer[t].status \in {"EXPIRED", "SKIPPED"}
  <2>1. RankOf(i) < RankOf(b)
    BY <1>1, <1>5, RankLess
  <2>2. RankOf(i) \in 1..offer[s].rank
    BY <1>2, <1>3, <2>1
  <2>3. PICK t \in Offered : offer[t].rank = RankOf(i)
    BY <2>2 DEF RankByRank
  <2>4. offer[t].bid = i
    BY <2>3, OfferOfRank
  <2>5. t # s /\ ~(s < t)
    <3>1. s < t => offer[s].rank < offer[t].rank
      BY DEF RankByRank
    <3> QED
      BY <1>2, <1>3, <2>1, <2>3, <3>1
  <2>6. t < s
    BY <1>1, <2>5
  <2>7. offer[t].status \in {"EXPIRED", "SKIPPED"}
    BY <2>6 DEF RankByRank
  <2> QED
    BY <2>4, <2>6, <2>7
<1>6. ASSUME NEW t \in Offered, Payer(t) = Payer(s)
      PROVE  t = s
  <2>1. PICK c \in Best : offer[t].bid = c /\ offer[t].rank = RankOf(c)
                          /\ bids[c].donor = Payer(t)
    BY DEF RankByRank, Payer
  <2>2. c = b
    <3>1. c = b \/ (Better(b, c) /\ Better(c, b))
      BY <1>1, <1>3, <1>6, <2>1 DEF Best
    <3> QED
      BY <1>1, <3>1, BetterOrder
  <2>3. /\ s < t => offer[s].rank < offer[t].rank
        /\ t < s => offer[t].rank < offer[s].rank
    BY DEF RankByRank
  <2> QED
    BY <1>1, <1>2, <1>3, <2>1, <2>2, <2>3
<1> QED
  BY <1>3, <1>4, <1>5, <1>6

\* Offers go to the donors' best bids, best first, one each: whoever bid more has
\* had an offer and let it go.
THEOREM CascadeInOrderHolds == Spec => []CascadeInOrder
<1>1. CoreOK /\ CascadeInv => CascadeInOrder
  BY OrderOfOffers DEF CascadeInv, FirstInv, CascadeInOrder
<1> QED
  BY <1>1, SaleCorrect, CascadeCorrect, PTL

LEMMA EveryBidderAsked ==
    ASSUME CoreOK, BidInv, RankByRank, status = "UNSOLD"
    PROVE  Bidders = {Payer(s) : s \in Offered}
<1>1. bids \in Seq(Bid) /\ Best \subseteq DOMAIN bids
  BY DEF CoreOK, Best
<1>2. \A i \in Best : RankOf(i) \in Nat /\ RankOf(i) >= 1 /\ bids[i].rank = RankOf(i)
  BY <1>1, RankType DEF RankByRank
<1>3. PICK last \in Offered : \A i \in DOMAIN bids : bids[i].rank # Follows(offer[last].rank)
  BY DEF RankByRank
<1>4. PICK r \in Nat : r >= 1 /\ offer[last].rank = r
  BY <1>2 DEF RankByRank
<1>5. \A i \in Best : RankOf(i) <= r
  <2>1. \A i \in Best : RankOf(i) # r + 1
    BY <1>1, <1>2, <1>3, <1>4 DEF Follows
  <2> QED
    BY <1>1, <1>4, <2>1, RankLast
<1>6. ASSUME NEW i \in DOMAIN bids
      PROVE  \E s \in Offered : Payer(s) = bids[i].donor
  <2>1. PICK b \in Best : bids[b].donor = bids[i].donor
    BY DEF BidInv
  <2>2. RankOf(b) \in 1..offer[last].rank
    BY <1>2, <1>4, <1>5
  <2>3. PICK s \in Offered : offer[s].rank = RankOf(b)
    BY <2>2 DEF RankByRank
  <2>4. offer[s].bid = b
    BY <2>3, OfferOfRank
  <2> QED
    BY <2>1, <2>4 DEF Payer
<1>7. \A s \in Offered : offer[s].bid \in DOMAIN bids
  BY <1>1 DEF RankByRank
<1> QED
  BY <1>6, <1>7 DEF Bidders, Payer

\* advanceToNextRankTx gives up only after the last rank, and no bidder is left out.
THEOREM UnsoldMeansExhaustedHolds == Spec => []UnsoldMeansExhausted
<1>1. CoreOK /\ CascadeInv => UnsoldMeansExhausted
  BY EveryBidderAsked DEF CascadeInv, FirstInv, FirstCascade, UnsoldMeansExhausted
<1> QED
  BY <1>1, SaleCorrect, CascadeCorrect, PTL
=============================================================================
