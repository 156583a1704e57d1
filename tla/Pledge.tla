-------------------------------- MODULE Pledge --------------------------------
(***************************************************************************)
(* Pledges and their payment: POST /api/pledge with its checkout           *)
(* (services/pledge.ts, routes/pledge.ts), Stripe Checkout, its webhook    *)
(* and manually entered donations, which all meet in processDonation       *)
(* (services/donation.ts).                                                 *)
(*                                                                         *)
(* A POST request creates the pledge, reads the wallet of the donor who is *)
(* signed in, and then either spends that wallet or opens a Checkout       *)
(* Session; donations arrive and donors spend between any two of these.  A *)
(* donation is processed in one transaction and is one step.               *)
(***************************************************************************)
EXTENDS Integers, Sequences, FiniteSets, Functions, FiniteSetsExt

CONSTANTS
    Pledge,       \* pledge tokens; Stripe knows each session by its token
    Donor,        \* donors, by normalized email
    Nobody,       \* no donor, or an email that was not typed
    External,     \* external ids of manual donations
    Amounts,      \* amounts of manual donations
    Prices,       \* prices of the reward
    VoteCents,    \* the other item of a cart: a vote of fixed worth
    Carts,        \* what donors put into carts: email, items, top-up, shipping
    Spends,       \* amounts spent outside pledges
    MaxElsewhere, \* bound: their sum
    Shipping,     \* what Stripe adds for shipping
    MinCharge,    \* STRIPE_MIN_CHARGE_CENTS
    MaxFaults     \* bound: failing statements of a pledge inside a donation

Item == {"reward", "vote"}
Someone == Donor \cup {Nobody}
Cart == [email : Someone, found : BOOLEAN,   \* typed as processDonation normalizes it?
         items : SUBSET Item, total : Nat, topUp : Nat, ship : BOOLEAN]

ASSUME ConstantsAssumption ==
    /\ Amounts \subseteq Nat /\ Prices \subseteq Nat /\ Spends \subseteq Nat
    /\ VoteCents \in Nat /\ Shipping \in Nat /\ MinCharge \in Nat /\ MaxFaults \in Nat
    /\ MaxElsewhere \in Nat
    /\ Nobody \notin Donor
    /\ Carts \subseteq Cart
    /\ \A c \in Carts :
           /\ c.total = 0     \* until the pledge is valued
           /\ c.found => c.email # Nobody
           /\ c.ship => "reward" \in c.items

VARIABLES
    balance,    \* Donor.balance_remaining
    price,      \* Reward.cost_cents
    order,      \* the PendingPledge rows by created_at
    cart,       \* what a row says from its creation on
    status,     \* PendingPledge.status, "NONE" without a row
    discount,   \* wallet_discount_cents
    by,         \* fulfilled_by_donation_id: the donation, if any
    lapsed,     \* pledges whose expires_at is past
    pc,         \* where the POST request of a pledge stands
    signedIn,   \* whose wallet it has read
    seen,       \* and what that wallet held
    stripe,     \* the Checkout Session: "none", "open" or "paid"
    charge,     \* its amount, shipping not included
    payer,      \* whose email it was paid with
    donations,  \* the Donation rows by external id
    claims,     \* RewardClaim and PollVote rows with their donation_id
    elsewhere,  \* history: what donors spent outside pledges
    faults

wallets == <<balance, claims, donations, elsewhere>>
rows == <<order, cart, lapsed>>
links == <<status, by>>
request == <<pc, signedIn, seen, discount>>
session == <<stripe, charge, payer>>
vars == <<wallets, price, rows, links, request, session, faults>>

Id == ({"session", "wallet"} \X Pledge) \cup ({"manual"} \X External)
NoCart == [email |-> Nobody, found |-> FALSE, items |-> {}, total |-> 0, topUp |-> 0,
           ship |-> FALSE]

TypeOK ==
    /\ balance \in [Donor -> Nat] /\ price \in Prices
    /\ order \in Seq(Pledge) /\ cart \in [Pledge -> Cart]
    /\ status \in [Pledge -> {"NONE", "OPEN", "FULFILLED"}]
    /\ discount \in [Pledge -> Nat] /\ by \in [Pledge -> SUBSET Id]
    /\ lapsed \subseteq Pledge
    /\ pc \in [Pledge -> {"none", "created", "read", "priced", "done"}]
    /\ signedIn \in [Pledge -> Someone] /\ seen \in [Pledge -> Nat]
    /\ stripe \in [Pledge -> {"none", "open", "paid"}]
    /\ charge \in [Pledge -> Nat] /\ payer \in [Pledge -> Someone]
    /\ DOMAIN donations \subseteq Id /\ IsFiniteSet(DOMAIN donations)
    /\ donations \in [DOMAIN donations -> [donor : Donor, cents : Nat, credit : Nat]]
    /\ IsFiniteSet(claims)
    /\ claims \subseteq [pledge : Pledge, item : Item, donation : Id, donor : Donor, cents : Nat]
    /\ elsewhere \in [Donor -> Nat] /\ faults \in 0..MaxFaults

Init ==
    /\ balance = [d \in Donor |-> 0] /\ price \in Prices
    /\ order = << >> /\ cart = [p \in Pledge |-> NoCart]
    /\ status = [p \in Pledge |-> "NONE"] /\ discount = [p \in Pledge |-> 0]
    /\ by = [p \in Pledge |-> {}] /\ lapsed = {}
    /\ pc = [p \in Pledge |-> "none"] /\ signedIn = [p \in Pledge |-> Nobody]
    /\ seen = [p \in Pledge |-> 0]
    /\ stripe = [p \in Pledge |-> "none"] /\ charge = [p \in Pledge |-> 0]
    /\ payer = [p \in Pledge |-> Nobody]
    /\ donations = << >> /\ claims = {} /\ elsewhere = [d \in Donor |-> 0] /\ faults = 0

-----------------------------------------------------------------------------
(* Money.                                                                  *)

Sum(S, worth) == MapThenSumSet(LAMBDA x : worth[x], S)
Least(a, b) == IF a <= b THEN a ELSE b
Positive(n) == IF n >= 0 THEN n ELSE 0

Worth(i) == IF i = "reward" THEN price ELSE VoteCents
Cost(items) == (IF "reward" \in items THEN price ELSE 0)
               + (IF "vote" \in items THEN VoteCents ELSE 0)

Coverable_Total(p) == cart[p].total
\* The additional contribution is always paid with real money.
Coverable(p) == cart[p].total - cart[p].topUp

\* What the wallet takes off the charge: Stripe refuses less than its minimum.
Offered(p, cents) ==
    LET full == Least(cents, Coverable(p))
        rest == cart[p].total - full
    IN  IF 0 < rest /\ rest < MinCharge
        THEN Least(Positive(cart[p].total - MinCharge), Coverable(p)) ELSE full

\* Something that is shipped goes through Checkout even when the wallet covers it.
Discount(p, cents) ==
    IF Offered(p, cents) >= cart[p].total
    THEN Positive(cart[p].total - MinCharge) ELSE Offered(p, cents)

Covered(p) ==
    /\ seen[p] > 0 /\ ~cart[p].ship
    /\ Offered(p, seen[p]) >= cart[p].total

-----------------------------------------------------------------------------
(* Fulfilment.  Each item is taken if the incentive is still open and the  *)
(* balance covers it, and skipped otherwise; staff open and close          *)
(* incentives at any time, so any affordable part of the cart may come out.*)

Takes(p, held, got) == got \subseteq cart[p].items /\ Cost(got) <= held

Lines(p, d, id, got) ==
    {[pledge |-> p, item |-> i, donation |-> id, donor |-> d, cents |-> Worth(i)] : i \in got}

-----------------------------------------------------------------------------
(* POST /api/pledge.                                                       *)

\* Every kind of item is validated against live data: it is open, belongs to the
\* Channel of the cart, and a reward counts at today's price.
Valued(c) == [c EXCEPT !.total = Cost(c.items) + c.topUp]
MayOrder(c) == c.items # {} \/ c.topUp > 0

Create(p, c) ==
    /\ status[p] = "NONE" /\ MayOrder(c)
    /\ order' = Append(order, p)
    /\ cart' = [cart EXCEPT ![p] = Valued(c)]
    /\ status' = [status EXCEPT ![p] = "OPEN"]
    /\ pc' = [pc EXCEPT ![p] = "created"]
    /\ UNCHANGED <<wallets, price, lapsed, by, signedIn, seen, discount, session, faults>>

\* A valid session cookie names a donor; the balance is read once, here.  Without
\* a donor, or with an empty wallet, the checkout offers no discount.
ReadDonor(p) ==
    /\ pc[p] = "created"
    /\ pc' = [pc EXCEPT ![p] = "read"]
    /\ \/ UNCHANGED <<signedIn, seen>>
       \/ \E d \in Donor :
              /\ balance[d] > 0
              /\ signedIn' = [signedIn EXCEPT ![p] = d]
              /\ seen' = [seen EXCEPT ![p] = balance[d]]
    /\ UNCHANGED <<wallets, price, rows, links, discount, session, faults>>

\* The request answers; what it has read is gone.
Answers(p) ==
    /\ pc' = [pc EXCEPT ![p] = "done"]
    /\ signedIn' = [signedIn EXCEPT ![p] = Nobody]
    /\ seen' = [seen EXCEPT ![p] = 0]

\* The wallet covers all: a donation of its own, fulfilled in one transaction.
SpendWallet(p) ==
    LET d == signedIn[p]
        id == <<"wallet", p>>
    IN  /\ pc[p] = "read" /\ Covered(p)
        /\ \E got \in SUBSET Item :
               /\ Takes(p, balance[d], got)
               /\ balance' = [balance EXCEPT ![d] = @ - Cost(got)]
               /\ claims' = claims \cup Lines(p, d, id, got)
        /\ donations' = [x \in DOMAIN donations \cup {id} |->
               IF x = id THEN [donor |-> d, cents |-> cart[p].total, credit |-> 0]
                         ELSE donations[x]]
        /\ status' = [status EXCEPT ![p] = "FULFILLED"]
        /\ by' = [by EXCEPT ![p] = {id}]
        /\ discount' = [discount EXCEPT ![p] = cart[p].total]
        /\ Answers(p)
        /\ UNCHANGED <<price, rows, session, elsewhere, faults>>

StoresDiscount_Later(p) == FALSE
StoresDiscount(p) == seen[p] > 0 /\ Discount(p, seen[p]) > 0

\* The discount is on the row before the session that gives it exists.
StoreDiscount(p) ==
    /\ pc[p] = "read" /\ ~Covered(p)
    /\ discount' = IF StoresDiscount(p)
                   THEN [discount EXCEPT ![p] = Discount(p, seen[p])] ELSE discount
    /\ pc' = [pc EXCEPT ![p] = "priced"]
    /\ UNCHANGED <<wallets, price, rows, links, signedIn, seen, session, faults>>

OpenSession(p) ==
    /\ pc[p] = "priced"
    /\ stripe' = [stripe EXCEPT ![p] = "open"]
    /\ charge' = [charge EXCEPT ![p] = cart[p].total
                      - (IF seen[p] > 0 THEN Discount(p, seen[p]) ELSE 0)]
    /\ Answers(p)
    /\ UNCHANGED <<wallets, price, rows, links, discount, payer, faults>>

\* No Stripe key, an error of Stripe or of the database: the pledge stays as it is.
CheckoutFails(p) ==
    /\ pc[p] \in {"created", "read", "priced"}
    /\ Answers(p)
    /\ UNCHANGED <<wallets, price, rows, links, discount, session, faults>>

-----------------------------------------------------------------------------
(* processDonation.                                                        *)

OpenFor(p, cents) == status[p] = "OPEN" /\ p \notin lapsed /\ cart[p].total <= cents

ByToken_AnyStatus(tokens, cents) ==
    {p \in tokens : p \notin lapsed /\ cart[p].total <= cents + discount[p]}
ByToken(tokens, cents) == {p \in tokens : OpenFor(p, cents + discount[p])}

ByEmail(d, cents) ==
    {p \in Pledge : cart[p].email = d /\ cart[p].found /\ OpenFor(p, cents)}
Newest(ps) == {order[k] : k \in {n \in DOMAIN order :
                   order[n] \in ps /\ \A m \in DOMAIN order : order[m] \in ps => m <= n}}

\* The pledge of the token, or else the newest one with the payer's email.
Resolve(tokens, d, cents) ==
    IF ByToken(tokens, cents) # {} THEN ByToken(tokens, cents) ELSE Newest(ByEmail(d, cents))

Credit_Gross(p, cents, shipping) == cents
Credit(p, cents, shipping) == cents - shipping

\* What processDonation writes.  A failing statement while the pledge is looked up
\* or fulfilled is caught inside the transaction: the rest is committed.
Process(id, d, cents, shipping, tokens) ==
    LET found == Resolve(tokens, d, cents)
        held == balance[d] + Credit(found, cents, shipping)
    IN  /\ id \notin DOMAIN donations
        /\ donations' = [x \in DOMAIN donations \cup {id} |->
               IF x = id THEN [donor |-> d, cents |-> cents, credit |-> cents - shipping]
                         ELSE donations[x]]
        /\ \/ /\ balance' = [balance EXCEPT ![d] = held]
              /\ faults' = IF found = {} THEN faults ELSE faults + 1
              /\ faults' <= MaxFaults
              /\ UNCHANGED <<claims, links>>
           \/ \E p \in found, got \in SUBSET Item, linked \in BOOLEAN, marked \in BOOLEAN :
                  /\ Takes(p, held, got)
                  /\ linked => marked
                  /\ balance' = [balance EXCEPT ![d] = held - Cost(got)]
                  /\ claims' = claims \cup Lines(p, d, id, got)
                  /\ status' = IF marked THEN [status EXCEPT ![p] = "FULFILLED"] ELSE status
                  /\ by' = IF linked THEN [by EXCEPT ![p] = {id}] ELSE by
                  /\ faults' = IF linked THEN faults ELSE faults + 1
                  /\ faults' <= MaxFaults
        /\ UNCHANGED <<price, rows, request, session, elsewhere>>

\* checkout.session.completed, as often and as late as Stripe repeats it: a
\* donation that is already there breaks the unique key and rolls back.
Webhook(p) ==
    LET shipping == IF cart[p].ship THEN Shipping ELSE 0
    IN  /\ stripe[p] = "paid"
        /\ Process(<<"session", p>>, payer[p], charge[p] + shipping, shipping, {p})

\* POST /admin/simulate-donation, with or without a pledge token.
Manual(x, d, cents, tokens) == Process(<<"manual", x>>, d, cents, 0, tokens)

-----------------------------------------------------------------------------
(* Stripe, donors, staff and time.                                         *)

\* A typed email is given to Stripe and cannot be changed there.
Pay(p, d) ==
    /\ stripe[p] = "open"
    /\ cart[p].email # Nobody => d = cart[p].email
    /\ stripe' = [stripe EXCEPT ![p] = "paid"]
    /\ payer' = [payer EXCEPT ![p] = d]
    /\ UNCHANGED <<wallets, price, rows, links, request, charge, faults>>

SpendElsewhere(d, cents) ==
    /\ cents <= balance[d]
    /\ Sum(Donor, elsewhere) + cents <= MaxElsewhere
    /\ balance' = [balance EXCEPT ![d] = @ - cents]
    /\ elsewhere' = [elsewhere EXCEPT ![d] = @ + cents]
    /\ UNCHANGED <<claims, donations, price, rows, links, request, session, faults>>

Reprice(c) ==
    /\ price # c /\ price' = c
    /\ UNCHANGED <<wallets, rows, links, request, session, faults>>

\* The request ends long before PLEDGE_TTL_MS (two hours), and nothing asks for
\* the expiry of a pledge that is not OPEN.
Lapse(p) ==
    /\ status[p] = "OPEN" /\ pc[p] = "done" /\ p \notin lapsed
    /\ lapsed' = lapsed \cup {p}
    /\ UNCHANGED <<wallets, price, order, cart, links, request, session, faults>>

-----------------------------------------------------------------------------
RequestStep(p) ==
    \/ \E c \in Carts : Create(p, c)
    \/ ReadDonor(p)
    \/ SpendWallet(p)
    \/ StoreDiscount(p)
    \/ OpenSession(p)
    \/ CheckoutFails(p)

Next ==
    \/ \E p \in Pledge : RequestStep(p) \/ Webhook(p) \/ Lapse(p)
    \/ \E p \in Pledge, d \in Donor : Pay(p, d)
    \/ \E x \in External, d \in Donor, c \in Amounts, tokens \in {{}} \cup {{p} : p \in Pledge} :
           Manual(x, d, c, tokens)
    \/ \E d \in Donor, c \in Spends : SpendElsewhere(d, c)
    \/ \E c \in Prices : Reprice(c)

Spec == Init /\ [][Next]_vars

-----------------------------------------------------------------------------
(* Properties.                                                             *)

IsWallet(id) == id[1] = "wallet"
ClaimCents == [c \in claims |-> c.cents]
CreditCents == [x \in DOMAIN donations |-> donations[x].credit]

\* No payment, wallet checkout or half-way fulfilment makes or loses money: a
\* donor holds what was credited less what claims and other spends took.
MoneyConserved ==
    \A d \in Donor :
        balance[d] = Sum({x \in DOMAIN donations : donations[x].donor = d}, CreditCents)
                     - Sum({c \in claims : c.donor = d}, ClaimCents) - elsewhere[d]

\* What was taken for a pledge belongs to a donation, and a wallet checkout makes
\* its donation when its request answers.
DonationInv ==
    /\ \A c \in claims : c.donation \in DOMAIN donations
    /\ \A p \in Pledge : <<"wallet", p>> \in DOMAIN donations => pc[p] = "done"

\* How far a pledge has come: its row, its request, its session and its payment.
StageInv ==
    \A p \in Pledge :
        /\ status[p] = "NONE" <=> pc[p] = "none"
        /\ cart[p].topUp <= cart[p].total
        /\ seen[p] > 0 => signedIn[p] \in Donor
        /\ stripe[p] # "none" => pc[p] = "done"
        /\ stripe[p] = "paid" => payer[p] \in Donor

\* A session never costs less than the row that its payment is compared with.
PriceInv ==
    \A p \in Pledge :
        /\ pc[p] = "priced" /\ seen[p] > 0 => Discount(p, seen[p]) <= discount[p]
        /\ stripe[p] # "none" => cart[p].total <= charge[p] + discount[p]

\* With the types, the inductive invariant of the money and of the sessions.
PledgeInv == MoneyConserved /\ DonationInv /\ StageInv /\ PriceInv

\* A session asks for the additional contribution in full and for no less than
\* Stripe's minimum, whatever the wallet held: "the additional contribution is
\* always charged as real money", "keep the line item at Stripe's minimum charge".
ChargeSound ==
    [][\A p \in Pledge :
           stripe[p] = "none" /\ stripe'[p] = "open" =>
               /\ cart[p].topUp <= charge'[p] /\ charge'[p] <= cart[p].total
               /\ cart[p].total - charge'[p] <= seen[p]
               /\ charge'[p] >= MinCharge \/ charge'[p] = cart[p].total]_vars

\* A payment never spends for a pledge that is fulfilled already, however often
\* webhooks repeat and whichever pledge the payer's email finds.
PaymentFulfilsOnce ==
    [][\A c \in claims' \ claims :
           ~IsWallet(c.donation) => status[c.pledge] = "OPEN"]_vars

\* Who pays a session in time gets the pledge fulfilled, discount and shipping
\* included: by this payment or by an earlier one.
PaidMeansFulfilled ==
    [][\A p \in Pledge :
           /\ <<"session", p>> \in DOMAIN donations' \ DOMAIN donations
           /\ p \notin lapsed /\ faults' = faults
           => status'[p] = "FULFILLED"]_vars

\* The totals count donations that are "money the charity holds", once: what is
\* counted for a donor is what payments of theirs brought in.  It does not hold
\* for a pledge that the wallet covers (README, divergences).
TotalsAreMoneyHeld ==
    LET cents == [x \in DOMAIN donations |-> donations[x].cents]
    IN  \A d \in Donor :
            LET theirs == {x \in DOMAIN donations : donations[x].donor = d}
            IN  Sum(theirs, cents) = Sum({x \in theirs : ~IsWallet(x)}, cents)
=============================================================================
