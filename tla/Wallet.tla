------------------------------- MODULE Wallet --------------------------------
(***************************************************************************)
(* The donors' wallets: what donations credit, what rewards, one poll and  *)
(* one goal take, and what staff adjust, sweep, claw back, reverse and     *)
(* moderate (services/spend.ts, services/refund.ts, the donation, donor,   *)
(* claim, poll and goal routes of routes/admin.ts and the custom entries   *)
(* of routes/moderator.ts).                                                *)
(*                                                                         *)
(* A donor's spend runs in one transaction and is one step.  Most staff    *)
(* routes read outside the transaction that writes: a request keeps what   *)
(* it has read while other requests run, and one that never comes back is  *)
(* one that failed.  The flags that only close a reward, a poll or a goal  *)
(* are left out: staff may set them back at any time.                      *)
(***************************************************************************)
EXTENDS Integers, Sequences, FiniteSets, Functions, FiniteSetsExt

CONSTANTS
    Donor,
    External,     \* the external ids of donations
    Cents,        \* amounts of donations, votes and contributions
    Prices,       \* prices of the reward
    Shipping,     \* what a donation may include for shipping
    Adjustments,  \* amounts of manual adjustments
    Listed,       \* poll options that staff created
    Custom,       \* poll options that donors may propose
    Stock,        \* the reward's quantity_total
    Target,       \* the goal's target_cents
    Staff,        \* staff requests in flight at the same time
    MaxSpends,    \* bound: rows that spends create
    MaxRequests   \* bound: staff requests that read outside their transaction

ASSUME ConstantsAssumption ==
    /\ Cents \subseteq Nat \ {0} /\ Prices \subseteq Nat \ {0} /\ Shipping \subseteq Nat
    /\ Adjustments \subseteq Int \ {0}
    /\ \A c \in Cents, s \in Shipping : s <= c
    /\ Listed \cap Custom = {} /\ "reward" \notin Listed \cup Custom
    /\ "goal" \notin Listed \cup Custom
    /\ IsFiniteSet(Listed \cup Custom)     \* the total of the poll is a sum over them
    /\ Stock \in Nat /\ Target \in Nat /\ MaxSpends \in Nat /\ MaxRequests \in Nat

Option == Listed \cup Custom
Item == Option \cup {"reward", "goal"}
Idle == [op |-> "idle", ready |-> FALSE]

VARIABLES
    balance,    \* Donor.balance_remaining
    donations,  \* the Donation rows by external_id
    spends,     \* RewardClaim, PollVote and FundContribution rows, oldest first
    adjusted,   \* the sum of each donor's BalanceAdjustment rows
    price,      \* Reward.cost_cents
    tally,      \* quantity_claimed, current_cents, and each option's votes_cents
    total,      \* Poll.total_votes_cents
    complete,   \* FundGoal.is_complete
    option,     \* PollOption.status, "NONE" before it is proposed
    entry,      \* PollCustomEntry.status, "NONE" before it is proposed
    request,    \* what each staff request has read
    requests    \* staff requests so far

poll == <<total, option, entry>>
rest == <<request, requests>>
vars == <<balance, donations, spends, adjusted, price, tally, total, complete,
          option, entry, request, requests>>

Donation == [donor : Donor, cents : Cents, shipping : Shipping,
             status : {"PENDING", "COMPLETED", "REFUNDED", "CHARGEBACK"},
             clawbacks : Seq(Int)]   \* adjustments linked to it; refund_id is the first
Spend == [donor : Donor, item : Item, cents : Cents \cup Prices,
          status : {"PENDING", "FULFILLED", "REVERSED"},   \* votes: PENDING until reversed_at
          refunds : Nat]             \* history: adjustments that give it back
Row == DOMAIN spends
\* "ready" requests have made their last read.
Request ==
    {Idle}
    \cup [op : {"adjust"}, donor : Donor, cents : Adjustments, ready : {TRUE}]
    \cup [op : {"sweep"}, took : [Donor -> Nat], ready : {TRUE}]
    \cup [op : {"reverse"}, row : Row, cents : Cents \cup Prices, ready : BOOLEAN, flag : BOOLEAN]
    \cup [op : {"moderate"}, option : Custom, verdict : {"APPROVED", "REJECTED"},
          row : Row, ready : {TRUE}]
    \cup [op : {"moderate"}, option : Custom, verdict : {"APPROVED", "REJECTED"},
          row : {0}, ready : {FALSE}]

TypeOK ==
    /\ balance \in [Donor -> Int] /\ adjusted \in [Donor -> Int]
    /\ DOMAIN donations \subseteq External /\ IsFiniteSet(DOMAIN donations)
    /\ donations \in [DOMAIN donations -> Donation]
    /\ spends \in Seq(Spend)
    /\ price \in Prices /\ tally \in [Item -> Int] /\ total \in Int
    /\ complete \in BOOLEAN
    /\ option \in [Option -> {"NONE", "ACTIVE", "PENDING_APPROVAL", "REJECTED"}]
    /\ entry \in [Custom -> {"NONE", "PENDING", "APPROVED", "REJECTED"}]
    /\ request \in [Staff -> Request]
    /\ requests \in 0..MaxRequests

Init ==
    /\ balance = [d \in Donor |-> 0] /\ adjusted = balance
    /\ donations = << >> /\ spends = << >>
    /\ price \in Prices /\ tally = [i \in Item |-> 0] /\ total = 0
    /\ complete = FALSE
    /\ option = [o \in Option |-> IF o \in Listed THEN "ACTIVE" ELSE "NONE"]
    /\ entry = [o \in Custom |-> "NONE"]
    /\ request = [r \in Staff |-> Idle] /\ requests = 0

-----------------------------------------------------------------------------
(* Rows and sums.                                                          *)

LiveOn(i) == {k \in Row : spends[k].item = i /\ spends[k].status # "REVERSED"}
SumOf(rows, worth) == MapThenSumSet(LAMBDA k : worth[k], rows)
Paid == [k \in Row |-> spends[k].cents]

\* Rows are marked reversed, and each donor gets back what their rows are worth.
GiveBack(rows, worth) ==
    LET owed(d) == SumOf({k \in rows : spends[k].donor = d}, worth)
    IN  /\ balance' = [d \in Donor |-> balance[d] + owed(d)]
        /\ adjusted' = [d \in Donor |-> adjusted[d] + owed(d)]
        /\ spends' = [k \in Row |->
               IF k \in rows THEN [spends[k] EXCEPT !.status = "REVERSED", !.refunds = @ + 1]
                             ELSE spends[k]]

\* A spend that the balance covers: n rows of c cents each.
Spends(d, i, c, n) ==
    /\ Len(spends) + n <= MaxSpends
    /\ balance[d] >= n * c
    /\ balance' = [balance EXCEPT ![d] = @ - n * c]
    /\ spends' = spends \o [k \in 1..n |->
           [donor |-> d, item |-> i, cents |-> c, status |-> "PENDING", refunds |-> 0]]

-----------------------------------------------------------------------------
(* Donations.                                                              *)

IsNew(x) == x \notin DOMAIN donations

\* A second delivery of the same donation breaks the unique key and rolls back.
Donate(x, d, c, s) ==
    /\ IsNew(x)
    /\ donations' = [y \in DOMAIN donations \cup {x} |->
           IF y = x THEN [donor |-> d, cents |-> c, shipping |-> s,
                          status |-> "COMPLETED", clawbacks |-> << >>]
                    ELSE donations[y]]
    /\ balance' = [balance EXCEPT ![d] = @ + c - s]
    /\ UNCHANGED <<spends, adjusted, price, tally, complete, poll, rest>>

MayBecome_Again(x, st) == donations[x].status # st
MayBecome(x, st) == donations[x].clawbacks = << >> /\ donations[x].status # st

\* A refund or chargeback takes back what the wallet still holds of the amount.
SetStatus(x, st) ==
    LET d == donations[x].donor
        clawback == Min({donations[x].cents, balance[d]})
        taken == st \in {"REFUNDED", "CHARGEBACK"}
    IN  /\ MayBecome(x, st)
        /\ balance' = IF taken THEN [balance EXCEPT ![d] = @ - clawback] ELSE balance
        /\ adjusted' = IF taken THEN [adjusted EXCEPT ![d] = @ - clawback] ELSE adjusted
        /\ donations' = [donations EXCEPT ![x].status = st,
               ![x].clawbacks = IF taken THEN Append(@, clawback) ELSE @]
        /\ UNCHANGED <<spends, price, tally, complete, poll, rest>>

-----------------------------------------------------------------------------
(* What donors spend.                                                      *)

Units_One(n) == 1
Units(n) == n

Claim(d, n) ==
    /\ tally["reward"] + n <= Stock
    /\ Spends(d, "reward", price, n)
    /\ tally' = [tally EXCEPT !["reward"] = @ + Units(n)]
    /\ UNCHANGED <<donations, adjusted, price, complete, poll, rest>>

\* A vote does not ask for the status of its option.
Vote(d, o, c) ==
    /\ option[o] # "NONE"
    /\ Spends(d, o, c, 1)
    /\ tally' = [tally EXCEPT ![o] = @ + c]
    /\ total' = total + c
    /\ UNCHANGED <<donations, adjusted, price, complete, option, entry, rest>>

EntryStatus(auto) == IF auto THEN "APPROVED" ELSE "PENDING"
FirstVotes_Always(auto, c) == c
FirstVotes(auto, c) == IF auto THEN c ELSE 0

\* A funded write-in; auto is the poll's auto_approve, as staff last set it.
Propose(d, o, c, auto) ==
    /\ option[o] = "NONE"
    /\ Spends(d, o, c, 1)
    /\ entry' = [entry EXCEPT ![o] = EntryStatus(auto)]
    /\ option' = [option EXCEPT ![o] = IF auto THEN "ACTIVE" ELSE "PENDING_APPROVAL"]
    /\ tally' = [tally EXCEPT ![o] = FirstVotes(auto, c)]
    /\ total' = IF auto THEN total + c ELSE total
    /\ UNCHANGED <<donations, adjusted, price, complete, rest>>

Contribute(d, c) ==
    /\ ~complete
    /\ Spends(d, "goal", c, 1)
    /\ tally' = [tally EXCEPT !["goal"] = @ + c]
    /\ complete' = (tally["goal"] + c >= Target)
    /\ UNCHANGED <<donations, adjusted, price, poll, rest>>

-----------------------------------------------------------------------------
(* Staff routes that are one transaction or one statement.                 *)

Reprice(c) ==
    /\ price # c /\ price' = c
    /\ UNCHANGED <<balance, donations, spends, adjusted, tally, complete, poll, rest>>

\* The route looks only at the status it is asked to set.
SetClaim(k, st) ==
    /\ spends[k].item = "reward" /\ spends[k].status # st
    /\ spends' = [spends EXCEPT ![k].status = st]
    /\ UNCHANGED <<balance, donations, adjusted, price, tally, complete, poll, rest>>

\* Every vote of an option is given back; with removed, the option goes too.
RefundOption(o, removed) ==
    LET credited == IF option[o] = "ACTIVE" THEN SumOf(LiveOn(o), Paid) ELSE 0
    IN  /\ option[o] # "NONE"
        /\ LiveOn(o) # {} \/ (removed /\ option[o] # "REJECTED")
        /\ GiveBack(LiveOn(o), Paid)
        /\ tally' = [tally EXCEPT ![o] = @ - credited]
        /\ total' = total - credited
        /\ option' = IF removed THEN [option EXCEPT ![o] = "REJECTED"] ELSE option
        /\ UNCHANGED <<donations, price, complete, entry, rest>>

\* The refund of the goal, and the part of its deletion that moves money.
RefundGoal ==
    LET left == tally["goal"] - SumOf(LiveOn("goal"), Paid)
    IN  /\ LiveOn("goal") # {}
        /\ GiveBack(LiveOn("goal"), Paid)
        /\ tally' = [tally EXCEPT !["goal"] = left]
        /\ complete' = (left >= Target)
        /\ UNCHANGED <<donations, price, poll, rest>>

-----------------------------------------------------------------------------
(* Staff routes that read first and write later.                           *)

Starts(r, q) ==
    /\ request[r] = Idle /\ requests < MaxRequests
    /\ request' = [request EXCEPT ![r] = q]
    /\ requests' = requests + 1
    /\ UNCHANGED <<balance, donations, spends, adjusted, price, tally, total, complete,
                   option, entry>>
Waits(r, op) == request[r].op = op /\ ~request[r].ready
\* The request makes its last write and answers.
Ends(r, op) ==
    /\ request[r].op = op /\ request[r].ready
    /\ request' = [request EXCEPT ![r] = Idle]
    /\ UNCHANGED requests

AdjustRead(r, d, c) ==
    /\ balance[d] + c >= 0
    /\ Starts(r, [op |-> "adjust", donor |-> d, cents |-> c, ready |-> TRUE])

AdjustWrite(r) ==
    LET q == request[r]
    IN  /\ Ends(r, "adjust")
        /\ balance' = [balance EXCEPT ![q.donor] = @ + q.cents]
        /\ adjusted' = [adjusted EXCEPT ![q.donor] = @ + q.cents]
        /\ UNCHANGED <<donations, spends, price, tally, complete, poll>>

\* Every donor whose balance lies in a range is to lose the balance just read.
SweepRead(r) ==
    \E least, most \in {balance[d] : d \in Donor} :
        LET swept == {d \in Donor : balance[d] > 0 /\ balance[d] \in least..most}
        IN  /\ swept # {}
            /\ Starts(r, [op |-> "sweep", ready |-> TRUE,
                          took |-> [d \in Donor |-> IF d \in swept THEN balance[d] ELSE 0]])

Left_Zero(now, took) == IF took > 0 THEN 0 ELSE now
Left(now, took) == now - took

SweepWrite(r) ==
    LET took == request[r].took
    IN  /\ Ends(r, "sweep")
        /\ balance' = [d \in Donor |-> Left(balance[d], took[d])]
        /\ adjusted' = [d \in Donor |-> adjusted[d] - took[d]]
        /\ UNCHANGED <<donations, spends, price, tally, complete, poll>>

\* A claim is worth what the reward costs when it is reversed.
ReverseRead(r, k) ==
    LET claimed == spends[k].item = "reward"
    IN  /\ spends[k].status = "PENDING"
        /\ Starts(r, [op |-> "reverse", row |-> k, ready |-> claimed, flag |-> FALSE,
                      cents |-> IF claimed THEN price ELSE spends[k].cents])

\* The second read: is the option of the vote active, is the goal left empty?
ReverseSeen(r) ==
    LET k == request[r].row
        seen == IF spends[k].item = "goal" THEN tally["goal"] - spends[k].cents <= 0
                                           ELSE option[spends[k].item] = "ACTIVE"
    IN  /\ Waits(r, "reverse")
        /\ request' = [request EXCEPT ![r].ready = TRUE, ![r].flag = seen]
        /\ UNCHANGED <<balance, donations, spends, adjusted, price, tally, total, complete,
                       option, entry, requests>>

Reverse(r, items) ==
    /\ Ends(r, "reverse")
    /\ spends[request[r].row].item \in items
    /\ GiveBack({request[r].row}, [k \in Row |-> request[r].cents])

ReverseClaim(r) ==
    /\ Reverse(r, {"reward"})
    /\ tally' = [tally EXCEPT !["reward"] = @ - 1]
    /\ UNCHANGED <<donations, price, complete, poll>>

ReverseVote(r) ==
    LET q == request[r]
        o == spends[q.row].item
    IN  /\ Reverse(r, Option)
        /\ tally' = IF q.flag THEN [tally EXCEPT ![o] = @ - q.cents] ELSE tally
        /\ total' = IF q.flag THEN total - q.cents ELSE total
        /\ option' = IF q.flag THEN option ELSE [option EXCEPT ![o] = "REJECTED"]
        /\ UNCHANGED <<donations, price, complete, entry>>

ReverseContribution(r) ==
    /\ Reverse(r, {"goal"})
    /\ tally' = [tally EXCEPT !["goal"] = @ - request[r].cents]
    /\ complete' = (complete /\ ~request[r].flag)
    /\ UNCHANGED <<donations, price, poll>>

ModerateRead(r, o, v) ==
    /\ entry[o] = "PENDING"
    /\ Starts(r, [op |-> "moderate", option |-> o, verdict |-> v, row |-> 0, ready |-> FALSE])

\* The latest live vote of the option stands for its funding; with none, 404.
FindVote(r) ==
    LET votes == LiveOn(request[r].option)
    IN  /\ Waits(r, "moderate")
        /\ request' = IF votes = {} THEN [request EXCEPT ![r] = Idle]
                      ELSE [request EXCEPT ![r].row = Max(votes), ![r].ready = TRUE]
        /\ UNCHANGED <<balance, donations, spends, adjusted, price, tally, total, complete,
                       option, entry, requests>>

Approve(r) ==
    LET q == request[r]
    IN  /\ Ends(r, "moderate") /\ q.verdict = "APPROVED"
        /\ option' = [option EXCEPT ![q.option] = "ACTIVE"]
        /\ entry' = [entry EXCEPT ![q.option] = "APPROVED"]
        /\ tally' = [tally EXCEPT ![q.option] = @ + Paid[q.row]]
        /\ total' = total + Paid[q.row]
        /\ UNCHANGED <<balance, donations, spends, adjusted, price, complete>>

Refuse(r) ==
    LET q == request[r]
    IN  /\ Ends(r, "moderate") /\ q.verdict = "REJECTED"
        /\ GiveBack({q.row}, Paid)
        /\ option' = [option EXCEPT ![q.option] = "REJECTED"]
        /\ entry' = [entry EXCEPT ![q.option] = "REJECTED"]
        /\ UNCHANGED <<donations, price, tally, total, complete>>

-----------------------------------------------------------------------------
DonorStep ==
    \/ \E x \in External, d \in Donor, c \in Cents, s \in Shipping : Donate(x, d, c, s)
    \/ \E d \in Donor, n \in 1..Stock : Claim(d, n)
    \/ \E d \in Donor, o \in Option, c \in Cents : Vote(d, o, c)
    \/ \E d \in Donor, o \in Custom, c \in Cents, auto \in BOOLEAN : Propose(d, o, c, auto)
    \/ \E d \in Donor, c \in Cents : Contribute(d, c)

StaffStep ==
    \/ \E x \in DOMAIN donations, st \in {"PENDING", "COMPLETED", "REFUNDED", "CHARGEBACK"} :
           SetStatus(x, st)
    \/ \E c \in Prices : Reprice(c)
    \/ \E k \in Row, st \in {"PENDING", "FULFILLED"} : SetClaim(k, st)
    \/ \E o \in Option, removed \in BOOLEAN : RefundOption(o, removed)
    \/ RefundGoal

RequestStep(r) ==
    \/ \E d \in Donor, c \in Adjustments : AdjustRead(r, d, c)
    \/ AdjustWrite(r)
    \/ SweepRead(r)
    \/ SweepWrite(r)
    \/ \E k \in Row : ReverseRead(r, k)
    \/ ReverseSeen(r)
    \/ ReverseClaim(r)
    \/ ReverseVote(r)
    \/ ReverseContribution(r)
    \/ \E o \in Custom, v \in {"APPROVED", "REJECTED"} : ModerateRead(r, o, v)
    \/ FindVote(r)
    \/ Approve(r)
    \/ Refuse(r)

Next == DonorStep \/ StaffStep \/ \E r \in Staff : RequestStep(r)

Spec == Init /\ [][Next]_vars

-----------------------------------------------------------------------------
(* Properties.                                                             *)

Credited(d) == SumOf({x \in DOMAIN donations : donations[x].donor = d},
                     [x \in DOMAIN donations |-> donations[x].cents - donations[x].shipping])
Spent(d) == SumOf({k \in Row : spends[k].donor = d}, Paid)

\* A balance is what the rows say: donations less spends plus adjustments.  No
\* order of donations, spends, sweeps, reversals and moderation loses a cent.
LedgerBalances == \A d \in Donor : balance[d] = Credited(d) - Spent(d) + adjusted[d]

\* What a row still counts for: each refund takes it off once.
Counts ==
    [k \in Row |->
        (IF spends[k].item = "reward" THEN 1 ELSE spends[k].cents) * (1 - spends[k].refunds)]

\* quantity_claimed and current_cents move with the money: a spend that was given
\* back is taken off exactly as often as it was given back.
TalliesFollowMoney ==
    \A i \in {"reward", "goal"} :
        tally[i] = SumOf({k \in Row : spends[k].item = i}, Counts)

\* The total of the poll is the sum of its options, whatever becomes of them.
PollTotalIsSum == total = SumOf(Option, tally)

\* A donation is clawed back at most once and by no more than its amount, even when
\* staff submit twice or change their mind.
ClawedBackOnce ==
    \A x \in DOMAIN donations :
        /\ Len(donations[x].clawbacks) <= 1
        /\ \A n \in DOMAIN donations[x].clawbacks :
               donations[x].clawbacks[n] <= donations[x].cents

\* A vote is for an option that was proposed, and only such an option has votes.
OptionInv ==
    /\ \A k \in Row : spends[k].item \in Option => option[spends[k].item] # "NONE"
    /\ \A o \in Custom : entry[o] # "NONE" => option[o] # "NONE"
    /\ \A o \in Option : option[o] = "NONE" => tally[o] = 0

\* What a request has read of a row or of an option is still true when it writes.
RequestInv ==
    \A r \in Staff :
        LET q == request[r]
        IN  /\ q.op = "reverse" /\ spends[q.row].item # "reward" =>
                   q.cents = spends[q.row].cents
            /\ q.op = "moderate" => option[q.option] # "NONE"
            /\ q.op = "moderate" /\ q.ready => spends[q.row].item = q.option

\* With the types, the inductive invariant of the ledger and its tallies.
WalletInv == LedgerBalances /\ TalliesFollowMoney /\ PollTotalIsSum /\ OptionInv /\ RequestInv

\* "Claim already reversed", "Vote already reversed", "Contribution already reversed":
\* the money of a spend is given back once.
RefundedOnce == \A k \in Row : spends[k].refunds <= 1
=============================================================================
