----------------------------- MODULE Pledge_proofs -----------------------------
(***************************************************************************)
(* Proofs about Pledge for every set of pledges, donors, carts, prices and *)
(* donations, every shipping fee, minimum charge and number of faults.     *)
(***************************************************************************)
EXTENDS Pledge, SumTheorems, SequenceTheorems, TLAPS

Stage == {"none", "created", "read", "priced", "done"}
PledgeStatus == {"NONE", "OPEN", "FULFILLED"}
SessionStatus == {"none", "open", "paid"}
DonationRow == [donor : Donor, cents : Nat, credit : Nat]
ClaimRow == [pledge : Pledge, item : Item, donation : Id, donor : Donor, cents : Nat]

-----------------------------------------------------------------------------
(* Amounts.                                                                *)

LEMMA PricesAreNumbers ==
    /\ MinCharge \in Nat /\ VoteCents \in Nat /\ Shipping \in Nat /\ MaxFaults \in Nat
    /\ \A c \in Prices : c \in Nat
    /\ \A c \in Amounts : c \in Nat
    /\ \A c \in Spends : c \in Nat
    /\ Nobody \notin Donor
  BY ConstantsAssumption

LEMMA CostType ==
    ASSUME price \in Prices, NEW items
    PROVE  Cost(items) \in Nat
  BY PricesAreNumbers DEF Cost

\* What the wallet takes off a charge.
LEMMA OfferIs ==
    ASSUME NEW p, cart[p].total \in Nat, cart[p].topUp \in Nat, cart[p].topUp <= cart[p].total,
           NEW held \in Nat
    PROVE  /\ Offered(p, held) \in Nat /\ Offered(p, held) <= held
           /\ Offered(p, held) <= cart[p].total - cart[p].topUp
           /\ \/ Offered(p, held) = 0 \/ Offered(p, held) = cart[p].total
              \/ cart[p].total - Offered(p, held) >= MinCharge
<1>1. PICK t, u, m \in Nat : t = cart[p].total /\ u = cart[p].topUp /\ m = MinCharge
  BY PricesAreNumbers
<1>2. u <= t
  BY <1>1
<1>3. PICK full \in Nat : full = Least(held, t - u) /\ full <= held /\ full <= t - u
  BY <1>1, <1>2 DEF Least
<1>4. PICK low \in Nat : low = Positive(t - m) /\ (low = t - m \/ (low = 0 /\ t < m))
  BY <1>1 DEF Positive
<1>5. Offered(p, held) = IF 0 < t - full /\ t - full < m THEN Least(low, t - u) ELSE full
  BY <1>1, <1>3, <1>4 DEF Offered, Coverable
<1>6. CASE 0 < t - full /\ t - full < m
  <2>1. PICK n \in Nat : n = Least(low, t - u) /\ n <= low /\ n <= t - u
    BY <1>1, <1>2, <1>4 DEF Least
  <2>2. Offered(p, held) = n
    BY <1>5, <1>6, <2>1
  <2>3. n <= held
    BY <1>1, <1>3, <1>4, <1>6, <2>1
  <2>4. n = 0 \/ t - n >= m
    BY <1>1, <1>4, <2>1
  <2> QED
    BY <1>1, <2>1, <2>2, <2>3, <2>4
<1>7. CASE ~(0 < t - full /\ t - full < m)
  <2>1. Offered(p, held) = full
    BY <1>5, <1>7
  <2>2. full <= t
    BY <1>1, <1>2, <1>3
  <2>3. full = t \/ t - full >= m
    BY <1>1, <1>3, <1>7, <2>2
  <2> QED
    BY <1>1, <1>3, <2>1, <2>3
<1> QED
  BY <1>6, <1>7

\* The charge keeps the top-up and Stripe's minimum.
LEMMA DiscountIs ==
    ASSUME NEW p, cart[p].total \in Nat, cart[p].topUp \in Nat, cart[p].topUp <= cart[p].total,
           NEW held \in Nat
    PROVE  /\ Discount(p, held) \in Nat /\ Discount(p, held) <= held
           /\ Discount(p, held) <= cart[p].total - cart[p].topUp
           /\ Discount(p, held) = 0 \/ cart[p].total - Discount(p, held) >= MinCharge
<1>1. PICK t, u, m \in Nat : t = cart[p].total /\ u = cart[p].topUp /\ m = MinCharge
  BY PricesAreNumbers
<1>2. PICK o \in Nat : o = Offered(p, held)
  BY OfferIs
<1>3. o <= held /\ o <= t - u /\ (o = 0 \/ o = t \/ t - o >= m) /\ u <= t
  BY <1>1, <1>2, OfferIs
<1>4. Discount(p, held) = IF o >= t THEN Positive(t - m) ELSE o
  BY <1>1, <1>2 DEF Discount
<1>5. CASE o >= t
  <2>1. PICK low \in Nat : low = Positive(t - m) /\ (low = t - m \/ (low = 0 /\ t < m))
    BY <1>1 DEF Positive
  <2>2. Discount(p, held) = low
    BY <1>4, <1>5, <2>1
  <2>3. u = 0 /\ o = t
    BY <1>1, <1>3, <1>5
  <2>4. low <= t /\ (low = 0 \/ t - low >= m)
    BY <1>1, <2>1
  <2> QED
    BY <1>1, <1>3, <2>2, <2>3, <2>4
<1>6. CASE ~(o >= t)
  <2>1. Discount(p, held) = o
    BY <1>4, <1>6
  <2> QED
    BY <1>1, <1>3, <1>6, <2>1
<1> QED
  BY <1>5, <1>6

-----------------------------------------------------------------------------
(* The lines of a fulfilment.                                              *)

Line(p, d, id, i) ==
    [pledge |-> p, item |-> i, donation |-> id, donor |-> d, cents |-> Worth(i)]

LEMMA LineIs ==
    ASSUME price \in Prices, NEW p \in Pledge, NEW d \in Donor, NEW id \in Id, NEW i \in Item
    PROVE  /\ Line(p, d, id, i) \in ClaimRow
           /\ Line(p, d, id, i).donation = id /\ Line(p, d, id, i).donor = d
           /\ Line(p, d, id, i).cents = Worth(i) /\ Line(p, d, id, i).item = i
           /\ Line(p, d, id, i).pledge = p
<1>1. Worth(i) \in Nat
  BY PricesAreNumbers DEF Worth
<1> QED
  BY <1>1 DEF Line, ClaimRow

\* They add up to what they cost.
LEMMA LinesAre ==
    ASSUME price \in Prices, NEW p \in Pledge, NEW d \in Donor, NEW id \in Id,
           NEW got \in SUBSET Item, NEW w,
           \A l \in Lines(p, d, id, got) : w[l] = l.cents
    PROVE  /\ IsFiniteSet(Lines(p, d, id, got))
           /\ \A l \in Lines(p, d, id, got) :
                 l \in ClaimRow /\ l.donation = id /\ l.donor = d /\ l.pledge = p
           /\ Total(Lines(p, d, id, got), w) = Cost(got)
<1> DEFINE L == Lines(p, d, id, got)
<1>1. L = {Line(p, d, id, i) : i \in got}
  BY DEF Lines, Line
<1>2. \A l \in L : l \in ClaimRow /\ l.donation = id /\ l.donor = d /\ l.pledge = p
  BY <1>1, LineIs
<1>3. PICK a, b : a = Line(p, d, id, "reward") /\ b = Line(p, d, id, "vote")
  OBVIOUS
<1>4. /\ "reward" \in Item /\ "vote" \in Item /\ Worth("reward") = price
      /\ Worth("vote") = VoteCents /\ price \in Nat /\ VoteCents \in Nat
  BY PricesAreNumbers DEF Item, Worth
<1>5. a.item = "reward" /\ a.cents = price /\ b.item = "vote" /\ b.cents = VoteCents /\ a # b
  BY <1>3, <1>4, LineIs
<1>6. L = (IF "reward" \in got THEN {a} ELSE {}) \cup (IF "vote" \in got THEN {b} ELSE {})
  BY <1>1, <1>3 DEF Item
<1>7. \A l \in L : w[l] = l.cents
  OBVIOUS
<1> HIDE DEF L
<1>8. IsFiniteSet({}) /\ IsFiniteSet({a}) /\ IsFiniteSet({b})
  BY FS_EmptySet, FS_Singleton
<1>9. IsFiniteSet(L) /\ Total(L, w) = Cost(got)
  <2>1. CASE "reward" \in got /\ "vote" \in got
    <3>1. L = {a, b}
      BY <1>6, <2>1
    <3>2. w[a] = price /\ w[b] = VoteCents
      BY <1>5, <1>7, <3>1
    <3>3. Total({a, b}, w) = price + VoteCents /\ IsFiniteSet({a, b})
      <4>1. a # b /\ w[a] \in Int /\ w[b] \in Int
        BY <1>4, <1>5, <3>2
      <4>2. Total({a, b}, w) = w[a] + w[b] /\ IsFiniteSet({a, b})
        BY <4>1, TotalPair
      <4> QED
        BY <3>2, <4>2
    <3>4. Cost(got) = price + VoteCents
      BY <2>1 DEF Cost
    <3> QED
      BY <3>1, <3>3, <3>4
  <2>2. CASE "reward" \in got /\ "vote" \notin got
    <3>1. L = {a}
      BY <1>6, <2>2
    <3>2. w[a] = price
      BY <1>5, <1>7, <3>1
    <3>3. Total({a}, w) = price
      BY <1>4, <3>2, TotalSingle
    <3>4. Cost(got) = price
      BY <1>4, <2>2 DEF Cost
    <3> QED
      BY <1>8, <3>1, <3>3, <3>4
  <2>3. CASE "reward" \notin got /\ "vote" \in got
    <3>1. L = {b}
      BY <1>6, <2>3
    <3>2. w[b] = VoteCents
      BY <1>5, <1>7, <3>1
    <3>3. Total({b}, w) = VoteCents
      BY <1>4, <3>2, TotalSingle
    <3>4. Cost(got) = VoteCents
      BY <1>4, <2>3 DEF Cost
    <3> QED
      BY <1>8, <3>1, <3>3, <3>4
  <2>4. CASE "reward" \notin got /\ "vote" \notin got
    <3>1. L = {}
      BY <1>6, <2>4
    <3>2. Cost(got) = 0
      BY <2>4 DEF Cost
    <3> QED
      BY <1>8, <3>1, <3>2, TotalEmpty
  <2> QED
    BY <2>1, <2>2, <2>3, <2>4
<1> QED
  BY <1>2, <1>9 DEF L

-----------------------------------------------------------------------------
(* The money of a step.                                                    *)

\* L are claims of one donation of d, and together they cost n.
Takings(L, id, d, n) ==
    /\ IsFiniteSet(L) /\ n \in Nat
    /\ \A l \in L : l \in ClaimRow /\ l.donation = id /\ l.donor = d
    /\ \A w : (\A l \in L : w[l] = l.cents) => Total(L, w) = n

\* A donation is added with what it takes; no donation and no claim goes.
Filled(id, d, credit, L, n) ==
    /\ id \in Id /\ d \in Donor /\ credit \in Nat /\ Takings(L, id, d, n)
    /\ id \notin DOMAIN donations
    /\ DOMAIN donations' = DOMAIN donations \cup {id}
    /\ \A x \in DOMAIN donations : donations[x]' = donations[x]
    /\ donations' \in [DOMAIN donations' -> DonationRow]
    /\ donations[id].donor' = d /\ donations[id].credit' = credit
    /\ claims' = claims \cup L
    /\ n <= balance[d] + credit
    /\ balance' = [balance EXCEPT ![d] = @ + credit - n]
    /\ UNCHANGED elsewhere

FillStep == \E id, d, credit, L, n : Filled(id, d, credit, L, n)
ElsewhereStep ==
    /\ UNCHANGED <<donations, claims>>
    /\ \E d \in Donor, cents \in Nat :
          /\ cents <= balance[d]
          /\ balance' = [balance EXCEPT ![d] = @ - cents]
          /\ elsewhere' = [elsewhere EXCEPT ![d] = @ + cents]

LEMMA LinesTake ==
    ASSUME price \in Prices, NEW p \in Pledge, NEW d \in Donor, NEW id \in Id,
           NEW got \in SUBSET Item
    PROVE  Takings(Lines(p, d, id, got), id, d, Cost(got))
<1>1. PICK L, n : L = Lines(p, d, id, got) /\ n = Cost(got)
  OBVIOUS
<1>2. n \in Nat
  BY <1>1, CostType
<1>3. IsFiniteSet(L) /\ \A l \in L : l \in ClaimRow /\ l.donation = id /\ l.donor = d
  <2>1. PICK w : w = [l \in L |-> l.cents]
    OBVIOUS
  <2>2. \A l \in L : w[l] = l.cents
    BY <2>1
  <2> QED
    BY <1>1, <2>2, LinesAre
<1>4. ASSUME NEW w, \A l \in L : w[l] = l.cents PROVE Total(L, w) = n
  BY <1>1, <1>4, LinesAre
<1>5. Takings(L, id, d, n)
  BY <1>2, <1>3, <1>4 DEF Takings
<1> QED
  BY <1>1, <1>5

LEMMA NothingTaken ==
    ASSUME NEW id, NEW d
    PROVE  Takings({}, id, d, 0)
  BY FS_EmptySet, TotalEmpty DEF Takings

\* A new row of donations.
LEMMA RowAdded ==
    ASSUME TypeOK, NEW id, id \notin DOMAIN donations, NEW row \in DonationRow,
           donations' = [x \in DOMAIN donations \cup {id} |-> IF x = id THEN row ELSE donations[x]]
    PROVE  /\ DOMAIN donations' = DOMAIN donations \cup {id}
           /\ \A x \in DOMAIN donations : donations[x]' = donations[x]
           /\ donations[id]' = row
           /\ donations' \in [DOMAIN donations' -> DonationRow]
  BY DEF TypeOK, DonationRow

\* Only an OPEN pledge is found.
LEMMA FoundIsOpen ==
    ASSUME TypeOK, NEW tokens \in SUBSET Pledge, NEW d, NEW cents, NEW p,
           p \in Resolve(tokens, d, cents)
    PROVE  p \in Pledge /\ status[p] = "OPEN"
<1>1. ASSUME NEW q, q \in ByToken(tokens, cents) PROVE q \in Pledge /\ status[q] = "OPEN"
  BY <1>1 DEF ByToken, OpenFor
<1>2. ASSUME NEW q, q \in ByEmail(d, cents) PROVE q \in Pledge /\ status[q] = "OPEN"
  BY <1>2 DEF ByEmail, OpenFor
<1>3. ASSUME NEW q, q \in Newest(ByEmail(d, cents)) PROVE q \in ByEmail(d, cents)
  BY <1>3 DEF Newest
<1> QED
  BY <1>1, <1>2, <1>3 DEF Resolve

\* What a payment or a manual donation does, whatever it finds and whatever fails.
Settles ==
    /\ UNCHANGED <<price, rows, request, session>>
    /\ faults' \in 0..MaxFaults
    /\ status' \in [Pledge -> PledgeStatus] /\ by' \in [Pledge -> SUBSET Id]
    /\ \A q \in Pledge : status[q]' = status[q] \/ (status[q] = "OPEN" /\ status[q]' = "FULFILLED")

Outcome(id, d, credit, found) ==
    /\ \E L, n : Filled(id, d, credit, L, n)
    /\ Settles
    /\ \A c \in claims' \ claims : c.donation = id /\ status[c.pledge] = "OPEN"
    /\ \/ found = {} \/ faults' # faults
       \/ \E p \in found : status[p]' = "FULFILLED"

LEMMA ProcessIs ==
    ASSUME TypeOK, NEW id \in Id, NEW d \in Donor, NEW cents \in Nat, NEW shipping \in Nat,
           shipping <= cents, NEW tokens \in SUBSET Pledge,
           Process(id, d, cents, shipping, tokens)
    PROVE  \E credit, found :
              /\ credit \in Nat /\ credit = cents - shipping /\ found = Resolve(tokens, d, cents)
              /\ Outcome(id, d, credit, found)
<1>1. PICK found : found = Resolve(tokens, d, cents)
  OBVIOUS
<1>2. PICK credit \in Nat : credit = cents - shipping
  OBVIOUS
<1> SUFFICES Outcome(id, d, credit, found)
  BY <1>1, <1>2
<1>3. /\ balance \in [Donor -> Nat] /\ price \in Prices /\ faults \in 0..MaxFaults
      /\ status \in [Pledge -> PledgeStatus] /\ by \in [Pledge -> SUBSET Id]
  BY DEF TypeOK, PledgeStatus
<1>4. PICK b, held \in Nat : b = balance[d] /\ held = b + credit
  BY <1>3
<1>5. PICK row : row = [donor |-> d, cents |-> cents, credit |-> credit]
  OBVIOUS
<1>6. /\ id \notin DOMAIN donations
      /\ donations' = [x \in DOMAIN donations \cup {id} |->
             IF x = id THEN row ELSE donations[x]]
      /\ UNCHANGED <<price, rows, request, session, elsewhere>>
  BY <1>2, <1>5 DEF Process
<1>7. row \in DonationRow /\ row.donor = d /\ row.credit = credit
  BY <1>5 DEF DonationRow
<1>8. /\ DOMAIN donations' = DOMAIN donations \cup {id}
      /\ \A x \in DOMAIN donations : donations[x]' = donations[x]
      /\ donations[id]' = row /\ donations' \in [DOMAIN donations' -> DonationRow]
  BY <1>6, <1>7, RowAdded
<1>9. \A p \in found : p \in Pledge /\ status[p] = "OPEN"
  BY <1>1, FoundIsOpen
<1>10. balance[d] + Credit(found, cents, shipping) = held
  BY <1>2, <1>4 DEF Credit
<1>11. \/ /\ balance' = [balance EXCEPT ![d] = held]
          /\ faults' = IF found = {} THEN faults ELSE faults + 1
          /\ faults' <= MaxFaults
          /\ UNCHANGED <<claims, links>>
       \/ \E p \in found, got \in SUBSET Item, linked \in BOOLEAN, marked \in BOOLEAN :
              /\ Takes(p, held, got)
              /\ linked => marked
              /\ balance' = [balance EXCEPT ![d] = held - Cost(got)]
              /\ claims' = claims \cup Lines(p, d, id, got)
              /\ status' = IF marked THEN [status EXCEPT ![p] = "FULFILLED"] ELSE status
              /\ by' = IF linked THEN [by EXCEPT ![p] = {id}] ELSE by
              /\ faults' = IF linked THEN faults ELSE faults + 1
              /\ faults' <= MaxFaults
  BY <1>1, <1>10 DEF Process
<1>12. CASE /\ balance' = [balance EXCEPT ![d] = held]
            /\ faults' = IF found = {} THEN faults ELSE faults + 1
            /\ faults' <= MaxFaults
            /\ UNCHANGED <<claims, links>>
  <2>1. balance' = [balance EXCEPT ![d] = @ + credit - 0]
    BY <1>3, <1>4, <1>12
  <2>2. Filled(id, d, credit, {}, 0)
    <3>1. claims' = claims \cup {} /\ UNCHANGED elsewhere
      BY <1>6, <1>12
    <3>2. 0 <= balance[d] + credit
      BY <1>4
    <3>3. Takings({}, id, d, 0)
      BY NothingTaken
    <3>4. donations[id].donor' = d /\ donations[id].credit' = credit
      BY <1>7, <1>8
    <3> QED
      BY <1>6, <1>8, <2>1, <3>1, <3>2, <3>3, <3>4 DEF Filled
  <2>3. Settles
    BY <1>3, <1>6, <1>12, PricesAreNumbers DEF Settles, links
  <2>4. found = {} \/ faults' # faults
    BY <1>3, <1>12, PricesAreNumbers
  <2>5. \E L, n : Filled(id, d, credit, L, n)
    BY <2>2
  <2>6. \A c \in claims' \ claims : c.donation = id /\ status[c.pledge] = "OPEN"
    BY <1>12
  <2> QED
    BY <2>3, <2>4, <2>5, <2>6 DEF Outcome
<1>13. ASSUME NEW p \in found, NEW got \in SUBSET Item, NEW linked \in BOOLEAN,
              NEW marked \in BOOLEAN,
              /\ Takes(p, held, got)
              /\ linked => marked
              /\ balance' = [balance EXCEPT ![d] = held - Cost(got)]
              /\ claims' = claims \cup Lines(p, d, id, got)
              /\ status' = IF marked THEN [status EXCEPT ![p] = "FULFILLED"] ELSE status
              /\ by' = IF linked THEN [by EXCEPT ![p] = {id}] ELSE by
              /\ faults' = IF linked THEN faults ELSE faults + 1
              /\ faults' <= MaxFaults
       PROVE  Outcome(id, d, credit, found)
  <2>1. PICK L, n : L = Lines(p, d, id, got) /\ n = Cost(got)
    OBVIOUS
  <2>2. Takings(L, id, d, n) /\ n \in Nat /\ n <= held
    <3>1. p \in Pledge
      BY <1>9
    <3>2. Takings(L, id, d, n)
      BY <1>3, <2>1, <3>1, LinesTake
    <3>3. n \in Nat /\ n <= held
      BY <1>3, <1>13, <2>1, CostType DEF Takes
    <3> QED
      BY <3>2, <3>3
  <2>3. balance' = [balance EXCEPT ![d] = @ + credit - n]
    <3>1. balance' = [balance EXCEPT ![d] = held - n]
      BY <1>13, <2>1
    <3>2. held - n = balance[d] + credit - n
      BY <1>4, <2>2
    <3> QED
      BY <3>1, <3>2
  <2>4. Filled(id, d, credit, L, n)
    BY <1>4, <1>6, <1>7, <1>8, <1>13, <2>1, <2>2, <2>3 DEF Filled
  <2>5. p \in Pledge /\ status[p] = "OPEN"
    BY <1>9
  <2>6. Settles
    <3>1. status' \in [Pledge -> PledgeStatus] /\ by' \in [Pledge -> SUBSET Id]
      BY <1>3, <1>13, <2>5 DEF PledgeStatus
    <3>2. faults' \in 0..MaxFaults
      BY <1>3, <1>13, PricesAreNumbers
    <3>3. \A q \in Pledge :
             status[q]' = status[q] \/ (status[q] = "OPEN" /\ status[q]' = "FULFILLED")
      BY <1>3, <1>13, <2>5
    <3> QED
      BY <1>6, <3>1, <3>2, <3>3 DEF Settles
  <2>7. ASSUME NEW c \in claims' \ claims PROVE c.donation = id /\ status[c.pledge] = "OPEN"
    <3>1. c \in Lines(p, d, id, got)
      BY <1>13
    <3> QED
      BY <2>5, <3>1 DEF Lines
  <2>8. faults' # faults \/ status[p]' = "FULFILLED"
    BY <1>3, <1>13, <2>5, PricesAreNumbers
  <2>9. \E LL, nn : Filled(id, d, credit, LL, nn)
    BY <2>4
  <2> QED
    BY <2>6, <2>7, <2>8, <2>9 DEF Outcome
<1> QED
  BY <1>11, <1>12, <1>13

\* What the tables hold, and what the balances are compared with.
MoneyType ==
    /\ balance \in [Donor -> Nat] /\ elsewhere \in [Donor -> Nat]
    /\ DOMAIN donations \subseteq Id /\ IsFiniteSet(DOMAIN donations)
    /\ donations \in [DOMAIN donations -> DonationRow]
    /\ IsFiniteSet(claims) /\ claims \subseteq ClaimRow

WalletStep == FillStep \/ ElsewhereStep \/ UNCHANGED wallets

LEMMA FilledType ==
    ASSUME MoneyType, NEW id, NEW d, NEW credit, NEW L, NEW n, Filled(id, d, credit, L, n)
    PROVE  MoneyType'
<1>1. PICK b \in Nat : b = balance[d] + credit - n
  BY DEF MoneyType, Filled, Takings
<1>2. balance' \in [Donor -> Nat]
  BY <1>1 DEF MoneyType, Filled
<1>3. (DOMAIN donations \subseteq Id)' /\ IsFiniteSet(DOMAIN donations)'
  <2>1. IsFiniteSet(DOMAIN donations \cup {id})
    BY FS_AddElement DEF MoneyType
  <2> QED
    BY <2>1 DEF MoneyType, Filled
<1>4. IsFiniteSet(claims)' /\ (claims \subseteq ClaimRow)'
  <2>1. IsFiniteSet(claims \cup L)
    BY FS_Union DEF MoneyType, Filled, Takings
  <2> QED
    BY <2>1 DEF MoneyType, Filled, Takings
<1>5. elsewhere' = elsewhere /\ donations' \in [DOMAIN donations' -> DonationRow]
  BY DEF Filled
<1> QED
  BY <1>2, <1>3, <1>4, <1>5 DEF MoneyType

LEMMA WalletStepType ==
    ASSUME MoneyType, WalletStep
    PROVE  MoneyType'
<1>1. CASE FillStep
  BY <1>1, FilledType DEF FillStep
<1>2. CASE ElsewhereStep
  <2>1. PICK d \in Donor, cents \in Nat :
           /\ cents <= balance[d]
           /\ balance' = [balance EXCEPT ![d] = @ - cents]
           /\ elsewhere' = [elsewhere EXCEPT ![d] = @ + cents]
    BY <1>2 DEF ElsewhereStep
  <2>2. balance' \in [Donor -> Nat] /\ elsewhere' \in [Donor -> Nat]
    BY <2>1 DEF MoneyType
  <2> QED
    BY <1>2, <2>2 DEF ElsewhereStep, MoneyType
<1>3. CASE UNCHANGED wallets
  BY <1>3 DEF wallets, MoneyType
<1> QED
  BY <1>1, <1>2, <1>3 DEF WalletStep

GiftsOf(d) == {x \in DOMAIN donations : donations[x].donor = d}
ClaimsOf(d) == {c \in claims : c.donor = d}

LEMMA SumIs ==
    ASSUME NEW S, NEW w
    PROVE  Sum(S, w) = Total(S, w)
  BY DEF Sum, Total

LEMMA MoneyIs ==
    ASSUME MoneyType, NEW d
    PROVE  /\ IsFiniteSet(GiftsOf(d)) /\ IsFiniteSet(ClaimsOf(d))
           /\ \A x \in GiftsOf(d) : CreditCents[x] \in Int /\ x \in DOMAIN donations
           /\ \A c \in ClaimsOf(d) : ClaimCents[c] \in Int /\ c \in claims
           /\ Total(GiftsOf(d), CreditCents) \in Int /\ Total(ClaimsOf(d), ClaimCents) \in Int
<1>1. GiftsOf(d) \subseteq DOMAIN donations /\ ClaimsOf(d) \subseteq claims
  BY DEF GiftsOf, ClaimsOf
<1>2. IsFiniteSet(DOMAIN donations) /\ IsFiniteSet(claims)
  BY DEF MoneyType
<1>3. IsFiniteSet(GiftsOf(d)) /\ IsFiniteSet(ClaimsOf(d))
  BY <1>1, <1>2, FS_Subset
<1>4. \A x \in DOMAIN donations : CreditCents[x] \in Int
  BY DEF CreditCents, MoneyType, DonationRow
<1>5. \A c \in claims : ClaimCents[c] \in Int
  BY DEF ClaimCents, MoneyType, ClaimRow
<1>6. Total(GiftsOf(d), CreditCents) \in Int
  BY <1>1, <1>2, <1>4, TotalType
<1>7. Total(ClaimsOf(d), ClaimCents) \in Int
  BY <1>1, <1>2, <1>5, TotalType
<1> QED
  BY <1>1, <1>3, <1>4, <1>5, <1>6, <1>7

\* What a new donation credits, and to whom.
LEMMA FilledCredits ==
    ASSUME MoneyType, NEW id, NEW d, NEW credit, NEW L, NEW n, Filled(id, d, credit, L, n),
           NEW e \in Donor
    PROVE  Total(GiftsOf(e)', CreditCents') =
              Total(GiftsOf(e), CreditCents) + IF e = d THEN credit ELSE 0
<1>1. PICK A, v, w : A = GiftsOf(e) /\ v = CreditCents /\ w = CreditCents'
  OBVIOUS
<1>2. /\ DOMAIN donations' = DOMAIN donations \cup {id} /\ id \notin DOMAIN donations
      /\ \A x \in DOMAIN donations : donations[x]' = donations[x]
      /\ donations[id].donor' = d /\ donations[id].credit' = credit /\ credit \in Nat
  BY DEF Filled
<1>3. /\ \A x \in DOMAIN donations : donations[x].donor' = donations[x].donor /\ w[x] = v[x]
      /\ w[id] = credit
  BY <1>1, <1>2 DEF CreditCents
<1>4. GiftsOf(e)' = IF e = d THEN A \cup {id} ELSE A
  BY <1>1, <1>2, <1>3 DEF GiftsOf
<1>5. IsFiniteSet(A) /\ Total(A, v) \in Int /\ \A x \in A : v[x] \in Int /\ x \in DOMAIN donations
  BY <1>1, MoneyIs
<1>6. Total(A, w) = Total(A, v)
  BY <1>3, <1>5, TotalSame
<1>7. CASE e = d
  <2>1. id \notin A /\ \A x \in A \cup {id} : w[x] \in Int
    BY <1>2, <1>3, <1>5
  <2>2. IsFiniteSet(A)
    BY <1>5
  <2>3. Total(A \cup {id}, w) = Total(A, w) + w[id]
    BY <2>1, <2>2, TotalAdd
  <2>4. Total(GiftsOf(e)', CreditCents') = Total(A \cup {id}, w)
    BY <1>1, <1>4, <1>7
  <2> QED
    BY <1>1, <1>3, <1>6, <1>7, <2>3, <2>4
<1>8. CASE e # d
  <2>1. Total(GiftsOf(e)', CreditCents') = Total(A, w)
    BY <1>1, <1>4, <1>8
  <2> QED
    BY <1>1, <1>5, <1>6, <1>8, <2>1
<1> QED
  BY <1>7, <1>8

\* What its claims take, and from whom: claims of one donation are never made twice.
LEMMA FilledTakes ==
    ASSUME MoneyType, DonationInv, NEW id, NEW d, NEW credit, NEW L, NEW n,
           Filled(id, d, credit, L, n), NEW e \in Donor
    PROVE  Total(ClaimsOf(e)', ClaimCents') =
              Total(ClaimsOf(e), ClaimCents) + IF e = d THEN n ELSE 0
<1>1. PICK A, v, w : A = ClaimsOf(e) /\ v = ClaimCents /\ w = ClaimCents'
  OBVIOUS
<1>2. /\ claims' = claims \cup L /\ Takings(L, id, d, n) /\ id \notin DOMAIN donations
  BY DEF Filled
<1>3. \A c \in L : c.donation = id /\ c.donor = d /\ c.cents \in Nat
  BY <1>2 DEF Takings, ClaimRow
<1>4. claims \cap L = {}
  BY <1>2, <1>3 DEF DonationInv
<1>5. (\A c \in claims : w[c] = v[c]) /\ (\A c \in L : w[c] = c.cents)
  BY <1>1, <1>2 DEF ClaimCents
<1>6. ClaimsOf(e)' = IF e = d THEN A \cup L ELSE A
  BY <1>1, <1>2, <1>3 DEF ClaimsOf
<1>7. IsFiniteSet(A) /\ Total(A, v) \in Int /\ \A c \in A : v[c] \in Int /\ c \in claims
  BY <1>1, MoneyIs
<1>8. Total(A, w) = Total(A, v)
  BY <1>5, <1>7, TotalSame
<1>9. CASE e = d
  <2>1. A \cap L = {} /\ IsFiniteSet(L) /\ IsFiniteSet(A)
    BY <1>2, <1>4, <1>7 DEF Takings
  <2>2. \A c \in A \cup L : w[c] \in Int
    BY <1>3, <1>5, <1>7
  <2>3. Total(A \cup L, w) = Total(A, w) + Total(L, w)
    BY <2>1, <2>2, TotalUnion
  <2>4. Total(L, w) = n
    BY <1>2, <1>5 DEF Takings
  <2>5. Total(ClaimsOf(e)', ClaimCents') = Total(A \cup L, w)
    BY <1>1, <1>6, <1>9
  <2> QED
    BY <1>1, <1>8, <1>9, <2>3, <2>4, <2>5
<1>10. CASE e # d
  <2>1. Total(ClaimsOf(e)', ClaimCents') = Total(A, w)
    BY <1>1, <1>6, <1>10
  <2> QED
    BY <1>1, <1>7, <1>8, <1>10, <2>1
<1> QED
  BY <1>9, <1>10

LEMMA MoneyStep ==
    ASSUME MoneyType, MoneyConserved, DonationInv, WalletStep
    PROVE  MoneyConserved'
<1> SUFFICES ASSUME NEW e \in Donor
             PROVE  balance[e]' = Total(GiftsOf(e)', CreditCents')
                                  - Total(ClaimsOf(e)', ClaimCents') - elsewhere[e]'
  BY SumIs DEF MoneyConserved, GiftsOf, ClaimsOf
<1>1. balance[e] = Total(GiftsOf(e), CreditCents) - Total(ClaimsOf(e), ClaimCents) - elsewhere[e]
  BY SumIs DEF MoneyConserved, GiftsOf, ClaimsOf
<1>2. PICK g, c \in Int : g = Total(GiftsOf(e), CreditCents) /\ c = Total(ClaimsOf(e), ClaimCents)
  BY MoneyIs
<1>3. PICK b, s \in Int : b = balance[e] /\ s = elsewhere[e] /\ b = g - c - s
  BY <1>1, <1>2 DEF MoneyType
<1>4. ASSUME NEW id, NEW d, NEW credit, NEW L, NEW n, Filled(id, d, credit, L, n)
      PROVE  balance[e]' = Total(GiftsOf(e)', CreditCents')
                           - Total(ClaimsOf(e)', ClaimCents') - elsewhere[e]'
  <2>1. Total(GiftsOf(e)', CreditCents') = g + IF e = d THEN credit ELSE 0
    BY <1>2, <1>4, FilledCredits
  <2>2. Total(ClaimsOf(e)', ClaimCents') = c + IF e = d THEN n ELSE 0
    BY <1>2, <1>4, FilledTakes
  <2>3. credit \in Int /\ n \in Int /\ elsewhere[e]' = s
    BY <1>3, <1>4 DEF Filled, Takings
  <2>4. balance[e]' = IF e = d THEN b + credit - n ELSE b
    BY <1>3, <1>4 DEF Filled, MoneyType
  <2> QED
    BY <1>3, <2>1, <2>2, <2>3, <2>4
<1>5. CASE FillStep
  BY <1>4, <1>5 DEF FillStep
<1>6. CASE ElsewhereStep
  <2>1. GiftsOf(e)' = GiftsOf(e) /\ ClaimsOf(e)' = ClaimsOf(e)
        /\ CreditCents' = CreditCents /\ ClaimCents' = ClaimCents
    BY <1>6 DEF ElsewhereStep, GiftsOf, ClaimsOf, CreditCents, ClaimCents
  <2>2. PICK d \in Donor, x \in Nat :
           /\ balance' = [balance EXCEPT ![d] = @ - x]
           /\ elsewhere' = [elsewhere EXCEPT ![d] = @ + x]
    BY <1>6 DEF ElsewhereStep
  <2>3. /\ balance[e]' = IF e = d THEN b - x ELSE b
        /\ elsewhere[e]' = IF e = d THEN s + x ELSE s
    BY <1>3, <2>2 DEF MoneyType
  <2> QED
    BY <1>2, <1>3, <2>1, <2>3
<1>7. CASE UNCHANGED wallets
  BY <1>1, <1>7 DEF wallets, GiftsOf, ClaimsOf, CreditCents, ClaimCents
<1> QED
  BY <1>5, <1>6, <1>7 DEF WalletStep

-----------------------------------------------------------------------------
(* The pledges, one at a time.                                             *)

RestType ==
    /\ price \in Prices /\ order \in Seq(Pledge) /\ cart \in [Pledge -> Cart]
    /\ status \in [Pledge -> PledgeStatus]
    /\ discount \in [Pledge -> Nat] /\ by \in [Pledge -> SUBSET Id] /\ lapsed \subseteq Pledge
    /\ pc \in [Pledge -> Stage] /\ signedIn \in [Pledge -> Someone] /\ seen \in [Pledge -> Nat]
    /\ stripe \in [Pledge -> SessionStatus]
    /\ charge \in [Pledge -> Nat] /\ payer \in [Pledge -> Someone] /\ faults \in 0..MaxFaults

StageOK(q) ==
    /\ status[q] = "NONE" <=> pc[q] = "none"
    /\ cart[q].topUp <= cart[q].total
    /\ seen[q] > 0 => signedIn[q] \in Donor
    /\ stripe[q] # "none" => pc[q] = "done"
    /\ stripe[q] = "paid" => payer[q] \in Donor
    /\ <<"wallet", q>> \in DOMAIN donations => pc[q] = "done"

PriceOK(q) ==
    /\ pc[q] = "priced" /\ seen[q] > 0 => Discount(q, seen[q]) <= discount[q]
    /\ stripe[q] # "none" => cart[q].total <= charge[q] + discount[q]

PledgeOK(q) == StageOK(q) /\ PriceOK(q)
PledgesOK == \A q \in Pledge : PledgeOK(q)
ClaimsOK == \A c \in claims : c.donation \in DOMAIN donations

LEMMA TypeSplit == TypeOK <=> MoneyType /\ RestType
BY DEF TypeOK, MoneyType, RestType, DonationRow, ClaimRow, Stage, PledgeStatus, SessionStatus

LEMMA InvSplit == PledgeInv <=> MoneyConserved /\ ClaimsOK /\ PledgesOK
<1>1. DonationInv /\ StageInv /\ PriceInv <=> ClaimsOK /\ PledgesOK
  BY DEF DonationInv, StageInv, PriceInv, ClaimsOK, PledgesOK, PledgeOK, StageOK, PriceOK
<1> QED
  BY <1>1 DEF PledgeInv

LEMMA DiscountKept ==
    ASSUME NEW q, cart[q]' = cart[q], seen[q]' = seen[q]
    PROVE  Discount(q, seen[q])' = Discount(q, seen[q])
BY DEF Discount, Offered, Coverable, Least, Positive

\* Nothing happens to a pledge but, perhaps, its fulfilment.
Same(q) ==
    /\ cart[q]' = cart[q] /\ discount[q]' = discount[q] /\ pc[q]' = pc[q]
    /\ signedIn[q]' = signedIn[q] /\ seen[q]' = seen[q]
    /\ stripe[q]' = stripe[q] /\ charge[q]' = charge[q] /\ payer[q]' = payer[q]
    /\ status[q]' = "NONE" <=> status[q] = "NONE"
    /\ <<"wallet", q>> \in DOMAIN donations' => <<"wallet", q>> \in DOMAIN donations

LEMMA SameIsOK ==
    ASSUME NEW q, PledgeOK(q), Same(q)
    PROVE  PledgeOK(q)'
<1>1. StageOK(q)'
  BY DEF PledgeOK, StageOK, Same
<1>2. PICK x : x = Discount(q, seen[q])
  OBVIOUS
<1>3. Discount(q, seen[q])' = x
  BY <1>2, DiscountKept DEF Same
<1>4. pc[q] = "priced" /\ seen[q] > 0 => x <= discount[q]
  BY <1>2 DEF PledgeOK, PriceOK
<1>5. PriceOK(q)'
  BY <1>3, <1>4 DEF PledgeOK, PriceOK, Same
<1> QED
  BY <1>1, <1>5 DEF PledgeOK

LEMMA OneChanges ==
    ASSUME PledgesOK, NEW p \in Pledge, PledgeOK(p)', \A q \in Pledge \ {p} : Same(q)
    PROVE  PledgesOK'
BY SameIsOK DEF PledgesOK

-----------------------------------------------------------------------------
(* The actions.                                                            *)

StepOK == WalletStep /\ RestType' /\ PledgesOK'
Untouched == UNCHANGED wallets

LEMMA WalletUntouched ==
    ASSUME Untouched
    PROVE  WalletStep /\ DOMAIN donations' = DOMAIN donations
BY DEF Untouched, WalletStep, wallets

LEMMA CreateStep ==
    ASSUME TypeOK, PledgesOK, NEW p \in Pledge, NEW c \in Carts, Create(p, c)
    PROVE  StepOK
<1>1. RestType /\ PledgeOK(p)
  BY TypeSplit DEF PledgesOK
<1>2. Untouched
  BY DEF Create, Untouched
<1>3. PICK v : v = Valued(c)
  OBVIOUS
<1>4. v \in Cart /\ v.topUp <= v.total
  <2>1. c \in Cart
    BY ConstantsAssumption
  <2>2. PICK n \in Nat : n = Cost(c.items)
    BY CostType, <1>1 DEF RestType
  <2>3. PICK u \in Nat : u = c.topUp
    BY <2>1 DEF Cart
  <2>4. v = [c EXCEPT !.total = n + u]
    BY <1>3, <2>2, <2>3 DEF Valued
  <2>5. n + u \in Nat /\ u <= n + u
    BY <2>2, <2>3
  <2> QED
    BY <2>1, <2>3, <2>4, <2>5 DEF Cart
<1>5. /\ status[p] = "NONE" /\ order' = Append(order, p) /\ cart' = [cart EXCEPT ![p] = v]
      /\ status' = [status EXCEPT ![p] = "OPEN"] /\ pc' = [pc EXCEPT ![p] = "created"]
      /\ UNCHANGED <<price, lapsed, by, signedIn, seen, discount, stripe, charge, payer, faults>>
  BY <1>3 DEF Create, session
<1>6. RestType'
  BY <1>1, <1>4, <1>5 DEF RestType, PledgeStatus, Stage
<1>7. PledgeOK(p)'
  <2>1. cart[p]' = v /\ pc[p]' = "created" /\ status[p]' = "OPEN"
    BY <1>1, <1>5 DEF RestType
  <2>2. pc[p] = "none"
    BY <1>1, <1>5 DEF PledgeOK, StageOK
  <2>3. stripe[p] = "none" /\ <<"wallet", p>> \notin DOMAIN donations
    BY <1>1, <2>2 DEF PledgeOK, StageOK
  <2>4. StageOK(p)'
    BY <1>1, <1>2, <1>4, <1>5, <2>1, <2>3, WalletUntouched DEF PledgeOK, StageOK
  <2>5. PriceOK(p)'
    BY <1>5, <2>1, <2>3 DEF PriceOK
  <2> QED
    BY <2>4, <2>5 DEF PledgeOK
<1>8. \A q \in Pledge \ {p} : Same(q)
  BY <1>1, <1>2, <1>5, WalletUntouched DEF RestType, Same
<1> QED
  BY <1>2, <1>6, <1>7, <1>8, OneChanges, WalletUntouched DEF StepOK

LEMMA ReadDonorStep ==
    ASSUME TypeOK, PledgesOK, NEW p \in Pledge, ReadDonor(p)
    PROVE  StepOK
<1>1. RestType /\ PledgeOK(p) /\ balance \in [Donor -> Nat]
  BY TypeSplit DEF PledgesOK, MoneyType
<1>2. Untouched
  BY DEF ReadDonor, Untouched
<1>3. /\ pc[p] = "created" /\ pc' = [pc EXCEPT ![p] = "read"]
      /\ UNCHANGED <<price, order, cart, lapsed, status, by, discount, stripe, charge, payer,
                     faults>>
  BY DEF ReadDonor, rows, links, session
<1>4. \/ UNCHANGED <<signedIn, seen>>
      \/ \E d \in Donor, n \in Nat : /\ signedIn' = [signedIn EXCEPT ![p] = d]
                                     /\ seen' = [seen EXCEPT ![p] = n]
  BY <1>1 DEF ReadDonor
<1>5. /\ signedIn' \in [Pledge -> Someone] /\ seen' \in [Pledge -> Nat]
      /\ seen[p]' > 0 => signedIn[p]' \in Donor
      /\ \A q \in Pledge \ {p} : signedIn[q]' = signedIn[q] /\ seen[q]' = seen[q]
  <2>1. CASE UNCHANGED <<signedIn, seen>>
    BY <1>1, <2>1 DEF RestType, PledgeOK, StageOK
  <2>2. ASSUME NEW d \in Donor, NEW n \in Nat,
               signedIn' = [signedIn EXCEPT ![p] = d] /\ seen' = [seen EXCEPT ![p] = n]
        PROVE  /\ signedIn' \in [Pledge -> Someone] /\ seen' \in [Pledge -> Nat]
               /\ signedIn[p]' = d
               /\ \A q \in Pledge \ {p} : signedIn[q]' = signedIn[q] /\ seen[q]' = seen[q]
    BY <1>1, <2>2 DEF RestType, Someone
  <2> QED
    BY <1>4, <2>1, <2>2
<1>6. RestType'
  BY <1>1, <1>3, <1>5 DEF RestType, Stage
<1>7. PledgeOK(p)'
  <2>1. pc[p]' = "read"
    BY <1>1, <1>3 DEF RestType
  <2>2. stripe[p] = "none" /\ <<"wallet", p>> \notin DOMAIN donations
    BY <1>1, <1>3 DEF PledgeOK, StageOK
  <2>3. StageOK(p)'
    BY <1>1, <1>2, <1>3, <1>5, <2>1, <2>2, WalletUntouched DEF PledgeOK, StageOK
  <2>4. PriceOK(p)'
    BY <1>3, <2>1, <2>2 DEF PriceOK
  <2> QED
    BY <2>3, <2>4 DEF PledgeOK
<1>8. \A q \in Pledge \ {p} : Same(q)
  BY <1>1, <1>2, <1>3, <1>5, WalletUntouched DEF RestType, Same
<1> QED
  BY <1>2, <1>6, <1>7, <1>8, OneChanges, WalletUntouched DEF StepOK

LEMMA StoreDiscountStep ==
    ASSUME TypeOK, PledgesOK, NEW p \in Pledge, StoreDiscount(p)
    PROVE  StepOK
<1>1. RestType /\ PledgeOK(p)
  BY TypeSplit DEF PledgesOK
<1>2. Untouched
  BY DEF StoreDiscount, Untouched
<1>3. /\ pc[p] = "read" /\ pc' = [pc EXCEPT ![p] = "priced"]
      /\ UNCHANGED <<price, order, cart, lapsed, status, by, signedIn, seen, stripe, charge,
                     payer, faults>>
  BY DEF StoreDiscount, rows, links, session
<1>4. PICK x \in Nat : x = Discount(p, seen[p])
  <2>1. cart[p] \in Cart /\ seen[p] \in Nat
    BY <1>1 DEF RestType
  <2>2. cart[p].total \in Nat /\ cart[p].topUp \in Nat /\ cart[p].topUp <= cart[p].total
    BY <1>1, <2>1 DEF Cart, PledgeOK, StageOK
  <2> QED
    BY <2>1, <2>2, DiscountIs
<1>5. discount' = IF seen[p] > 0 /\ x > 0 THEN [discount EXCEPT ![p] = x] ELSE discount
  BY <1>4 DEF StoreDiscount, StoresDiscount
<1>6. /\ discount' \in [Pledge -> Nat]
      /\ seen[p] > 0 => x <= discount[p]'
      /\ \A q \in Pledge \ {p} : discount[q]' = discount[q]
  BY <1>1, <1>4, <1>5 DEF RestType
<1>7. RestType'
  BY <1>1, <1>3, <1>6 DEF RestType, Stage
<1>8. PledgeOK(p)'
  <2>1. pc[p]' = "priced"
    BY <1>1, <1>3 DEF RestType
  <2>2. stripe[p] = "none" /\ <<"wallet", p>> \notin DOMAIN donations
    BY <1>1, <1>3 DEF PledgeOK, StageOK
  <2>3. StageOK(p)'
    BY <1>1, <1>2, <1>3, <2>1, <2>2, WalletUntouched DEF PledgeOK, StageOK
  <2>4. Discount(p, seen[p])' = x
    BY <1>3, <1>4, DiscountKept
  <2>5. PriceOK(p)'
    BY <1>3, <1>6, <2>2, <2>4 DEF PriceOK
  <2> QED
    BY <2>3, <2>5 DEF PledgeOK
<1>9. \A q \in Pledge \ {p} : Same(q)
  BY <1>1, <1>2, <1>3, <1>6, WalletUntouched DEF RestType, Same
<1> QED
  BY <1>2, <1>7, <1>8, <1>9, OneChanges, WalletUntouched DEF StepOK

\* What a request may ask a session for.
LEMMA SessionAsks ==
    ASSUME TypeOK, PledgesOK, NEW p \in Pledge, OpenSession(p)
    PROVE  \E x \in Nat :
              /\ x = (IF seen[p] > 0 THEN Discount(p, seen[p]) ELSE 0)
              /\ x <= cart[p].total - cart[p].topUp /\ x <= seen[p] /\ x <= discount[p]
              /\ x = 0 \/ cart[p].total - x >= MinCharge
              /\ cart[p].total \in Nat /\ cart[p].topUp \in Nat
              /\ charge' = [charge EXCEPT ![p] = cart[p].total - x]
<1>1. RestType /\ PledgeOK(p) /\ pc[p] = "priced"
  BY TypeSplit DEF PledgesOK, OpenSession
<1>2. cart[p] \in Cart /\ seen[p] \in Nat /\ discount[p] \in Nat
  BY <1>1 DEF RestType
<1>3. cart[p].total \in Nat /\ cart[p].topUp \in Nat /\ cart[p].topUp <= cart[p].total
  BY <1>1, <1>2 DEF Cart, PledgeOK, StageOK
<1>4. PICK y \in Nat : y = Discount(p, seen[p])
  BY <1>2, <1>3, DiscountIs
<1>5. /\ y <= seen[p] /\ y <= cart[p].total - cart[p].topUp
      /\ y = 0 \/ cart[p].total - y >= MinCharge
  BY <1>2, <1>3, <1>4, DiscountIs
<1>6. seen[p] > 0 => y <= discount[p]
  BY <1>1, <1>4 DEF PledgeOK, PriceOK
<1>7. PICK x \in Nat : x = IF seen[p] > 0 THEN y ELSE 0
  OBVIOUS
<1>8. x = (IF seen[p] > 0 THEN Discount(p, seen[p]) ELSE 0)
  BY <1>4, <1>7
<1>9. charge' = [charge EXCEPT ![p] = cart[p].total - x]
  BY <1>8 DEF OpenSession
<1>10. /\ x <= cart[p].total - cart[p].topUp /\ x <= seen[p] /\ x <= discount[p]
       /\ x = 0 \/ cart[p].total - x >= MinCharge
  BY <1>2, <1>3, <1>5, <1>6, <1>7
<1> QED
  BY <1>3, <1>8, <1>9, <1>10

LEMMA OpenSessionStep ==
    ASSUME TypeOK, PledgesOK, NEW p \in Pledge, OpenSession(p)
    PROVE  StepOK
<1>1. RestType /\ PledgeOK(p)
  BY TypeSplit DEF PledgesOK
<1>2. Untouched
  BY DEF OpenSession, Untouched
<1>3. /\ pc[p] = "priced" /\ pc' = [pc EXCEPT ![p] = "done"]
      /\ signedIn' = [signedIn EXCEPT ![p] = Nobody] /\ seen' = [seen EXCEPT ![p] = 0]
      /\ stripe' = [stripe EXCEPT ![p] = "open"]
      /\ UNCHANGED <<price, order, cart, lapsed, status, by, discount, payer, faults>>
  BY DEF OpenSession, Answers, rows, links
<1>4. PICK x \in Nat : /\ x <= cart[p].total - cart[p].topUp /\ x <= discount[p]
                       /\ cart[p].total \in Nat /\ cart[p].topUp \in Nat
                       /\ charge' = [charge EXCEPT ![p] = cart[p].total - x]
  BY SessionAsks
<1>5. PICK t, n \in Nat : t = cart[p].total /\ n = discount[p] /\ x <= n /\ x <= t
  BY <1>1, <1>4 DEF RestType
<1>6. charge' \in [Pledge -> Nat] /\ charge[p]' = t - x
  <2>1. t - x \in Nat
    BY <1>5
  <2> QED
    BY <1>1, <1>4, <1>5, <2>1 DEF RestType
<1>7. RestType'
  BY <1>1, <1>3, <1>6 DEF RestType, Stage, SessionStatus, Someone
<1>8. PledgeOK(p)'
  <2>1. pc[p]' = "done" /\ seen[p]' = 0 /\ stripe[p]' = "open"
    BY <1>1, <1>3 DEF RestType
  <2>2. StageOK(p)'
    BY <1>1, <1>2, <1>3, <2>1, WalletUntouched DEF PledgeOK, StageOK
  <2>3. t <= (t - x) + n
    BY <1>5
  <2>4. cart[p].total' <= charge[p]' + discount[p]'
    BY <1>3, <1>5, <1>6, <2>3
  <2>5. PriceOK(p)'
    BY <2>1, <2>4 DEF PriceOK
  <2> QED
    BY <2>2, <2>5 DEF PledgeOK
<1>9. \A q \in Pledge \ {p} : Same(q)
  BY <1>1, <1>2, <1>3, <1>4, WalletUntouched DEF RestType, Same
<1> QED
  BY <1>2, <1>7, <1>8, <1>9, OneChanges, WalletUntouched DEF StepOK

LEMMA CheckoutFailsStep ==
    ASSUME TypeOK, PledgesOK, NEW p \in Pledge, CheckoutFails(p)
    PROVE  StepOK
<1>1. RestType /\ PledgeOK(p)
  BY TypeSplit DEF PledgesOK
<1>2. Untouched
  BY DEF CheckoutFails, Untouched
<1>3. /\ pc[p] # "none" /\ pc[p] # "done" /\ pc' = [pc EXCEPT ![p] = "done"]
      /\ signedIn' = [signedIn EXCEPT ![p] = Nobody] /\ seen' = [seen EXCEPT ![p] = 0]
      /\ UNCHANGED <<price, order, cart, lapsed, status, by, discount, stripe, charge, payer,
                     faults>>
  BY DEF CheckoutFails, Answers, rows, links, session
<1>4. RestType'
  BY <1>1, <1>3 DEF RestType, Stage, Someone
<1>5. PledgeOK(p)'
  <2>1. pc[p]' = "done" /\ seen[p]' = 0
    BY <1>1, <1>3 DEF RestType
  <2>2. stripe[p] = "none"
    BY <1>1, <1>3 DEF PledgeOK, StageOK
  <2>3. StageOK(p)'
    BY <1>1, <1>2, <1>3, <2>1, <2>2, WalletUntouched DEF PledgeOK, StageOK
  <2>4. PriceOK(p)'
    BY <1>3, <2>1, <2>2 DEF PriceOK
  <2> QED
    BY <2>3, <2>4 DEF PledgeOK
<1>6. \A q \in Pledge \ {p} : Same(q)
  BY <1>1, <1>2, <1>3, WalletUntouched DEF RestType, Same
<1> QED
  BY <1>2, <1>4, <1>5, <1>6, OneChanges, WalletUntouched DEF StepOK

LEMMA PayStep ==
    ASSUME TypeOK, PledgesOK, NEW p \in Pledge, NEW d \in Donor, Pay(p, d)
    PROVE  StepOK
<1>1. RestType /\ PledgeOK(p)
  BY TypeSplit DEF PledgesOK
<1>2. Untouched
  BY DEF Pay, Untouched
<1>3. /\ stripe[p] = "open" /\ stripe' = [stripe EXCEPT ![p] = "paid"]
      /\ payer' = [payer EXCEPT ![p] = d]
      /\ UNCHANGED <<price, order, cart, lapsed, status, by, discount, pc, signedIn, seen,
                     charge, faults>>
  BY DEF Pay, rows, links, request
<1>4. RestType'
  BY <1>1, <1>3 DEF RestType, SessionStatus, Someone
<1>5. PledgeOK(p)'
  <2>1. stripe[p]' = "paid" /\ payer[p]' = d /\ pc[p] = "done"
    BY <1>1, <1>3 DEF RestType, PledgeOK, StageOK
  <2>2. StageOK(p)'
    BY <1>1, <1>2, <1>3, <2>1, WalletUntouched DEF PledgeOK, StageOK
  <2>3. PriceOK(p)'
    BY <1>1, <1>3, <2>1 DEF PledgeOK, PriceOK
  <2> QED
    BY <2>2, <2>3 DEF PledgeOK
<1>6. \A q \in Pledge \ {p} : Same(q)
  BY <1>1, <1>2, <1>3, WalletUntouched DEF RestType, Same
<1> QED
  BY <1>2, <1>4, <1>5, <1>6, OneChanges, WalletUntouched DEF StepOK

\* Prices, time and spending elsewhere leave the pledges as they are.
LEMMA AllSame ==
    ASSUME PledgesOK, \A q \in Pledge : Same(q)
    PROVE  PledgesOK'
BY SameIsOK DEF PledgesOK

LEMMA RepriceStep ==
    ASSUME TypeOK, PledgesOK, NEW c \in Prices, Reprice(c)
    PROVE  StepOK
<1>1. RestType /\ Untouched
  BY TypeSplit DEF Reprice, Untouched
<1>2. price' = c /\ UNCHANGED <<order, cart, lapsed, status, by, pc, signedIn, seen, discount,
                                stripe, charge, payer, faults>>
  BY DEF Reprice, rows, links, request, session
<1>3. RestType'
  BY <1>1, <1>2 DEF RestType
<1>4. \A q \in Pledge : Same(q)
  BY <1>1, <1>2, WalletUntouched DEF Same
<1> QED
  BY <1>1, <1>3, <1>4, AllSame, WalletUntouched DEF StepOK

LEMMA LapseStep ==
    ASSUME TypeOK, PledgesOK, NEW p \in Pledge, Lapse(p)
    PROVE  StepOK
<1>1. RestType /\ Untouched
  BY TypeSplit DEF Lapse, Untouched
<1>2. lapsed' = lapsed \cup {p}
      /\ UNCHANGED <<price, order, cart, status, by, pc, signedIn, seen, discount, stripe,
                     charge, payer, faults>>
  BY DEF Lapse, links, request, session
<1>3. RestType'
  BY <1>1, <1>2 DEF RestType
<1>4. \A q \in Pledge : Same(q)
  BY <1>1, <1>2, WalletUntouched DEF Same
<1> QED
  BY <1>1, <1>3, <1>4, AllSame, WalletUntouched DEF StepOK

LEMMA SpendElsewhereStep ==
    ASSUME TypeOK, PledgesOK, NEW d \in Donor, NEW c \in Spends, SpendElsewhere(d, c)
    PROVE  StepOK
<1>1. RestType /\ c \in Nat
  BY TypeSplit, PricesAreNumbers
<1>2. UNCHANGED <<claims, donations, price, order, cart, lapsed, status, by, pc, signedIn, seen,
                  discount, stripe, charge, payer, faults>>
  BY DEF SpendElsewhere, rows, links, request, session
<1>3. WalletStep
  BY <1>1, <1>2 DEF SpendElsewhere, WalletStep, ElsewhereStep
<1>4. RestType'
  BY <1>1, <1>2 DEF RestType
<1>5. \A q \in Pledge : Same(q)
  BY <1>2 DEF Same
<1> QED
  BY <1>3, <1>4, <1>5, AllSame DEF StepOK

LEMMA SpendWalletFills ==
    ASSUME TypeOK, PledgesOK, NEW p \in Pledge, SpendWallet(p)
    PROVE  \E id, d, L, n : id = <<"wallet", p>> /\ Filled(id, d, 0, L, n)
<1>1. RestType /\ PledgeOK(p)
  BY TypeSplit DEF PledgesOK
<1>2. balance \in [Donor -> Nat]
  BY DEF TypeOK
<1>3. PICK id, d, row : /\ id = <<"wallet", p>> /\ d = signedIn[p]
                        /\ row = [donor |-> d, cents |-> cart[p].total, credit |-> 0]
  OBVIOUS
<1>4. d \in Donor /\ id \in Id /\ id \notin DOMAIN donations
  BY <1>1, <1>3 DEF SpendWallet, Covered, PledgeOK, StageOK, Id
<1>5. row \in DonationRow /\ row.donor = d /\ row.credit = 0
  BY <1>1, <1>3, <1>4 DEF RestType, Cart, DonationRow
<1>6. donations' = [x \in DOMAIN donations \cup {id} |-> IF x = id THEN row ELSE donations[x]]
  BY <1>3 DEF SpendWallet
<1>7. /\ DOMAIN donations' = DOMAIN donations \cup {id}
      /\ \A x \in DOMAIN donations : donations[x]' = donations[x]
      /\ donations[id]' = row
      /\ donations' \in [DOMAIN donations' -> DonationRow]
  BY <1>4, <1>5, <1>6, RowAdded
<1>8. PICK got \in SUBSET Item : /\ Takes(p, balance[d], got)
                                 /\ balance' = [balance EXCEPT ![d] = @ - Cost(got)]
                                 /\ claims' = claims \cup Lines(p, d, id, got)
  BY <1>3 DEF SpendWallet
<1>9. PICK L, n : L = Lines(p, d, id, got) /\ n = Cost(got)
  OBVIOUS
<1>10. n \in Nat /\ Takings(L, id, d, n)
  BY <1>1, <1>4, <1>9, LinesTake, CostType DEF RestType
<1>11. PICK b \in Nat : b = balance[d]
  BY <1>2, <1>4
<1>12. n <= b + 0 /\ b - n = b + 0 - n
  BY <1>8, <1>9, <1>10, <1>11 DEF Takes
<1>13. balance' = [balance EXCEPT ![d] = @ + 0 - n]
  BY <1>8, <1>9, <1>11, <1>12
<1>14. donations[id].donor' = d /\ donations[id].credit' = 0
  BY <1>5, <1>7
<1>15. claims' = claims \cup L /\ UNCHANGED elsewhere
  BY <1>8, <1>9 DEF SpendWallet
<1>16. n <= balance[d] + 0
  BY <1>11, <1>12
<1>17. Filled(id, d, 0, L, n)
  BY <1>4, <1>7, <1>10, <1>13, <1>14, <1>15, <1>16 DEF Filled
<1> QED
  BY <1>3, <1>17

LEMMA SpendWalletStep ==
    ASSUME TypeOK, PledgesOK, NEW p \in Pledge, SpendWallet(p)
    PROVE  StepOK
<1>1. RestType /\ PledgeOK(p)
  BY TypeSplit DEF PledgesOK
<1>2. PICK id, d, L, n : id = <<"wallet", p>> /\ Filled(id, d, 0, L, n)
  BY SpendWalletFills
<1>3. WalletStep
  BY <1>2 DEF WalletStep, FillStep
<1>4. DOMAIN donations' = DOMAIN donations \cup {id} /\ id \in Id
  BY <1>2 DEF Filled
<1>5. PICK t \in Nat : t = cart[p].total
  BY <1>1 DEF RestType, Cart
<1>6. /\ pc[p] = "read" /\ pc' = [pc EXCEPT ![p] = "done"]
      /\ signedIn' = [signedIn EXCEPT ![p] = Nobody] /\ seen' = [seen EXCEPT ![p] = 0]
      /\ status' = [status EXCEPT ![p] = "FULFILLED"] /\ by' = [by EXCEPT ![p] = {id}]
      /\ discount' = [discount EXCEPT ![p] = t]
      /\ UNCHANGED <<price, order, cart, lapsed, stripe, charge, payer, faults>>
  BY <1>2, <1>5 DEF SpendWallet, Answers, rows, session
<1>7. RestType'
  BY <1>1, <1>4, <1>5, <1>6 DEF RestType, Stage, PledgeStatus, Someone
<1>8. PledgeOK(p)'
  <2>1. pc[p]' = "done" /\ seen[p]' = 0 /\ status[p]' = "FULFILLED"
    BY <1>1, <1>6 DEF RestType
  <2>2. stripe[p] = "none"
    BY <1>1, <1>6 DEF PledgeOK, StageOK
  <2>3. StageOK(p)'
    BY <1>1, <1>6, <2>1, <2>2 DEF PledgeOK, StageOK
  <2>4. PriceOK(p)'
    BY <1>6, <2>1, <2>2 DEF PriceOK
  <2> QED
    BY <2>3, <2>4 DEF PledgeOK
<1>9. ASSUME NEW q \in Pledge \ {p} PROVE Same(q)
  <2>1. <<"wallet", q>> # id
    BY <1>2
  <2> QED
    BY <1>1, <1>4, <1>6, <2>1 DEF RestType, Same
<1> QED
  BY <1>3, <1>7, <1>8, <1>9, OneChanges DEF StepOK

LEMMA OutcomeStep ==
    ASSUME TypeOK, PledgesOK, NEW id, \A q \in Pledge : id # <<"wallet", q>>,
           NEW d, NEW credit, NEW found, Outcome(id, d, credit, found)
    PROVE  StepOK
<1>1. RestType
  BY TypeSplit
<1>2. PICK L, n : Filled(id, d, credit, L, n)
  BY DEF Outcome
<1>3. WalletStep
  BY <1>2 DEF WalletStep, FillStep
<1>4. DOMAIN donations' = DOMAIN donations \cup {id}
  BY <1>2 DEF Filled
<1>5. /\ UNCHANGED <<price, order, cart, lapsed, pc, signedIn, seen, discount, stripe, charge,
                     payer>>
      /\ faults' \in 0..MaxFaults
      /\ status' \in [Pledge -> PledgeStatus] /\ by' \in [Pledge -> SUBSET Id]
      /\ \A q \in Pledge :
            status[q]' = status[q] \/ (status[q] = "OPEN" /\ status[q]' = "FULFILLED")
  BY DEF Outcome, Settles, rows, request, session
<1>6. RestType'
  BY <1>1, <1>5 DEF RestType
<1>7. ASSUME NEW q \in Pledge PROVE Same(q)
  <2>1. <<"wallet", q>> \in DOMAIN donations' => <<"wallet", q>> \in DOMAIN donations
    BY <1>4
  <2>2. status[q]' = "NONE" <=> status[q] = "NONE"
    BY <1>5
  <2> QED
    BY <1>5, <2>1, <2>2 DEF Same
<1> QED
  BY <1>3, <1>6, <1>7, AllSame DEF StepOK

\* A repeated webhook changes nothing: its donation is there.
LEMMA WebhookIs ==
    ASSUME TypeOK, PledgesOK, NEW p \in Pledge, Webhook(p)
    PROVE  \E id, d, cents, credit, found :
              /\ id = <<"session", p>> /\ cents \in Nat /\ charge[p] <= cents
              /\ found = Resolve({p}, d, cents)
              /\ Outcome(id, d, credit, found)
<1>1. RestType /\ PledgeOK(p)
  BY TypeSplit DEF PledgesOK
<1>2. PICK d \in Donor : d = payer[p]
  BY <1>1 DEF Webhook, PledgeOK, StageOK
<1>3. PICK shipping \in Nat : shipping = IF cart[p].ship THEN Shipping ELSE 0
  BY PricesAreNumbers
<1>4. PICK g \in Nat : g = charge[p]
  BY <1>1 DEF RestType
<1>5. PICK cents \in Nat : cents = g + shipping /\ shipping <= cents /\ g <= cents
  BY <1>3, <1>4
<1>6. PICK id \in Id : id = <<"session", p>>
  BY DEF Id
<1>7. Process(id, d, cents, shipping, {p})
  BY <1>2, <1>3, <1>4, <1>5, <1>6 DEF Webhook
<1>8. {p} \in SUBSET Pledge
  OBVIOUS
<1>9. PICK credit, found : found = Resolve({p}, d, cents) /\ Outcome(id, d, credit, found)
  BY <1>5, <1>7, <1>8, ProcessIs
<1>10. charge[p] <= cents
  BY <1>4, <1>5
<1>11. /\ id = <<"session", p>> /\ cents \in Nat /\ charge[p] <= cents
       /\ found = Resolve({p}, d, cents)
       /\ Outcome(id, d, credit, found)
  BY <1>6, <1>9, <1>10
<1> QED
  BY <1>11

LEMMA ManualIs ==
    ASSUME TypeOK, NEW x \in External, NEW d \in Donor, NEW c \in Amounts,
           NEW tokens \in SUBSET Pledge, Manual(x, d, c, tokens)
    PROVE  \E id, credit, found : id = <<"manual", x>> /\ Outcome(id, d, credit, found)
<1>1. c \in Nat /\ 0 \in Nat /\ 0 <= c
  BY PricesAreNumbers
<1>2. PICK id \in Id : id = <<"manual", x>>
  BY DEF Id
<1>3. Process(id, d, c, 0, tokens)
  BY <1>2 DEF Manual
<1>4. PICK credit, found : Outcome(id, d, credit, found)
  BY <1>1, <1>3, ProcessIs
<1> QED
  BY <1>2, <1>4

LEMMA WebhookStep ==
    ASSUME TypeOK, PledgesOK, NEW p \in Pledge, Webhook(p)
    PROVE  StepOK
<1>1. PICK id, d, credit, found : id = <<"session", p>> /\ Outcome(id, d, credit, found)
  BY WebhookIs
<1>2. \A q \in Pledge : id # <<"wallet", q>>
  BY <1>1
<1> QED
  BY <1>1, <1>2, OutcomeStep

LEMMA ManualStep ==
    ASSUME TypeOK, PledgesOK, NEW x \in External, NEW d \in Donor, NEW c \in Amounts,
           NEW tokens \in SUBSET Pledge, Manual(x, d, c, tokens)
    PROVE  StepOK
<1>1. PICK id, credit, found : id = <<"manual", x>> /\ Outcome(id, d, credit, found)
  BY ManualIs
<1>2. \A q \in Pledge : id # <<"wallet", q>>
  BY <1>1
<1> QED
  BY <1>1, <1>2, OutcomeStep

-----------------------------------------------------------------------------
(* The specification.                                                      *)

LEMMA ClaimsStep ==
    ASSUME ClaimsOK, WalletStep
    PROVE  ClaimsOK'
<1>1. ASSUME NEW id, NEW d, NEW credit, NEW L, NEW n, Filled(id, d, credit, L, n)
      PROVE  ClaimsOK'
  <2>1. claims' = claims \cup L /\ DOMAIN donations' = DOMAIN donations \cup {id}
        /\ \A l \in L : l.donation = id
    BY <1>1 DEF Filled, Takings
  <2> QED
    BY <2>1 DEF ClaimsOK
<1>2. CASE FillStep
  BY <1>1, <1>2 DEF FillStep
<1>3. CASE ElsewhereStep
  BY <1>3 DEF ElsewhereStep, ClaimsOK
<1>4. CASE UNCHANGED wallets
  BY <1>4 DEF wallets, ClaimsOK
<1> QED
  BY <1>2, <1>3, <1>4 DEF WalletStep

LEMMA NextStep ==
    ASSUME TypeOK, PledgesOK, Next
    PROVE  StepOK
<1>1. ASSUME NEW p \in Pledge, RequestStep(p) PROVE StepOK
  BY <1>1, CreateStep, ReadDonorStep, SpendWalletStep, StoreDiscountStep, OpenSessionStep,
     CheckoutFailsStep DEF RequestStep
<1>2. ASSUME NEW p \in Pledge, Webhook(p) \/ Lapse(p) PROVE StepOK
  BY <1>2, WebhookStep, LapseStep
<1>3. ASSUME NEW p \in Pledge, NEW d \in Donor, Pay(p, d) PROVE StepOK
  BY <1>3, PayStep
<1>4. ASSUME NEW x \in External, NEW d \in Donor, NEW c \in Amounts,
             NEW tokens \in {{}} \cup {{p} : p \in Pledge}, Manual(x, d, c, tokens)
      PROVE  StepOK
  <2>1. tokens \in SUBSET Pledge
    OBVIOUS
  <2> QED
    BY <1>4, <2>1, ManualStep
<1>5. ASSUME NEW d \in Donor, NEW c \in Spends, SpendElsewhere(d, c) PROVE StepOK
  BY <1>5, SpendElsewhereStep
<1>6. ASSUME NEW c \in Prices, Reprice(c) PROVE StepOK
  BY <1>6, RepriceStep
<1> QED
  BY <1>1, <1>2, <1>3, <1>4, <1>5, <1>6 DEF Next

LEMMA PledgeStep ==
    ASSUME TypeOK, PledgeInv, [Next]_vars
    PROVE  (TypeOK /\ PledgeInv)'
<1>1. MoneyType /\ RestType /\ MoneyConserved /\ ClaimsOK /\ PledgesOK /\ DonationInv
  BY TypeSplit, InvSplit DEF PledgeInv
<1>2. CASE Next
  <2>1. WalletStep /\ RestType' /\ PledgesOK'
    BY <1>1, <1>2, NextStep DEF StepOK
  <2>2. MoneyType' /\ MoneyConserved' /\ ClaimsOK'
    BY <1>1, <2>1, WalletStepType, MoneyStep, ClaimsStep
  <2>3. TypeOK'
    BY <2>1, <2>2 DEF TypeOK, MoneyType, RestType, DonationRow, ClaimRow, Stage, PledgeStatus,
                      SessionStatus
  <2>4. DonationInv' /\ StageInv' /\ PriceInv'
    BY <2>1, <2>2 DEF DonationInv, StageInv, PriceInv, ClaimsOK, PledgesOK, PledgeOK, StageOK,
                      PriceOK
  <2> QED
    BY <2>2, <2>3, <2>4 DEF PledgeInv
<1>3. CASE UNCHANGED vars
  <2>1. /\ UNCHANGED <<wallets, price, order, cart, lapsed, status, by>>
        /\ UNCHANGED <<pc, signedIn, seen, discount, stripe, charge, payer, faults>>
        /\ WalletStep
    BY <1>3 DEF vars, rows, links, request, session, WalletStep
  <2>2. RestType'
    BY <1>1, <2>1 DEF RestType
  <2>3. \A q \in Pledge : Same(q)
    BY <2>1 DEF Same, wallets
  <2>4. PledgesOK' /\ MoneyType' /\ MoneyConserved' /\ ClaimsOK'
    BY <1>1, <2>1, <2>3, AllSame, WalletStepType, MoneyStep, ClaimsStep
  <2>5. TypeOK'
    BY <2>2, <2>4 DEF TypeOK, MoneyType, RestType, DonationRow, ClaimRow, Stage, PledgeStatus,
                      SessionStatus
  <2>6. DonationInv' /\ StageInv' /\ PriceInv'
    BY <2>4 DEF DonationInv, StageInv, PriceInv, ClaimsOK, PledgesOK, PledgeOK, StageOK, PriceOK
  <2> QED
    BY <2>4, <2>5, <2>6 DEF PledgeInv
<1> QED
  BY <1>2, <1>3

LEMMA PledgeInit ==
    ASSUME Init
    PROVE  TypeOK /\ PledgeInv
<1>1. donations = << >> /\ DOMAIN donations = {} /\ claims = {}
  BY DEF Init
<1>2. NoCart \in Cart
  BY DEF NoCart, Cart, Someone
<1>3. IsFiniteSet({})
  BY FS_EmptySet
<1>4. MoneyType
  <2>1. donations \in [DOMAIN donations -> DonationRow]
    BY <1>1
  <2>2. IsFiniteSet(DOMAIN donations) /\ IsFiniteSet(claims)
    BY <1>1, <1>3
  <2>3. balance \in [Donor -> Nat] /\ elsewhere \in [Donor -> Nat]
    BY DEF Init
  <2> QED
    BY <1>1, <2>1, <2>2, <2>3 DEF MoneyType
<1>5. RestType
  <2>1. order \in Seq(Pledge)
    BY EmptySeq DEF Init
  <2>2. cart \in [Pledge -> Cart]
    BY <1>2 DEF Init
  <2>3. 0 \in 0..MaxFaults
    BY PricesAreNumbers
  <2> QED
    BY <2>1, <2>2, <2>3 DEF Init, RestType, PledgeStatus, Stage, SessionStatus, Someone
<1>6. TypeOK
  BY <1>4, <1>5, TypeSplit
<1>7. MoneyConserved
  <2>1. ASSUME NEW d \in Donor
        PROVE  balance[d] = Sum({x \in DOMAIN donations : donations[x].donor = d}, CreditCents)
                            - Sum({c \in claims : c.donor = d}, ClaimCents) - elsewhere[d]
    <3>1. {x \in DOMAIN donations : donations[x].donor = d} = {}
          /\ {c \in claims : c.donor = d} = {}
      BY <1>1
    <3>2. Sum({}, CreditCents) = 0 /\ Sum({}, ClaimCents) = 0
      BY SumIs, TotalEmpty
    <3>3. Sum({x \in DOMAIN donations : donations[x].donor = d}, CreditCents) = 0
      BY <3>1, <3>2
    <3>4. Sum({c \in claims : c.donor = d}, ClaimCents) = 0
      BY <3>1, <3>2
    <3>5. balance[d] = 0 /\ elsewhere[d] = 0
      BY DEF Init
    <3> QED
      BY <3>3, <3>4, <3>5
  <2> QED
    BY <2>1 DEF MoneyConserved
<1>8. ClaimsOK
  BY <1>1 DEF ClaimsOK
<1>9. ASSUME NEW q \in Pledge PROVE PledgeOK(q)
  <2>1. /\ status[q] = "NONE" /\ pc[q] = "none" /\ cart[q] = NoCart /\ seen[q] = 0
        /\ stripe[q] = "none"
    BY DEF Init
  <2> QED
    BY <1>1, <2>1 DEF PledgeOK, StageOK, PriceOK, NoCart
<1> QED
  BY <1>6, <1>7, <1>8, <1>9, InvSplit DEF PledgesOK

\* Whatever payments, donors, staff and failing statements do: the tables keep their
\* types, the balances what donations and claims add up to, and every pledge the
\* order in which a request prices it, opens its session and is paid.
THEOREM PledgeCorrect == Spec => [](TypeOK /\ PledgeInv)
<1>1. Init => TypeOK /\ PledgeInv
  BY PledgeInit
<1>2. TypeOK /\ PledgeInv /\ [Next]_vars => (TypeOK /\ PledgeInv)'
  BY PledgeStep
<1> QED
  BY <1>1, <1>2, PTL DEF Spec

\* Money is neither made nor lost: a balance is what was credited less what claims
\* and other spends took (processDonation, fulfillPledge).
THEOREM MoneyConservedHolds == Spec => []MoneyConserved
<1>1. TypeOK /\ PledgeInv => MoneyConserved
  BY DEF PledgeInv
<1> QED
  BY <1>1, PledgeCorrect, PTL

\* A session opens only as its request asks for it.
Asked(p) ==
    stripe[p] = "none" /\ stripe'[p] = "open" =>
        /\ cart[p].topUp <= charge'[p] /\ charge'[p] <= cart[p].total
        /\ cart[p].total - charge'[p] <= seen[p]
        /\ charge'[p] >= MinCharge \/ charge'[p] = cart[p].total

LEMMA OpensSoundly ==
    ASSUME TypeOK, PledgesOK, NEW p \in Pledge, OpenSession(p)
    PROVE  Asked(p)
<1>1. PICK x \in Nat :
         /\ x <= cart[p].total - cart[p].topUp /\ x <= seen[p]
         /\ x = 0 \/ cart[p].total - x >= MinCharge
         /\ cart[p].total \in Nat /\ cart[p].topUp \in Nat
         /\ charge' = [charge EXCEPT ![p] = cart[p].total - x]
  BY SessionAsks
<1>2. PICK t, u \in Nat : t = cart[p].total /\ u = cart[p].topUp
  BY <1>1
<1>3. charge'[p] = t - x
  BY <1>1, <1>2 DEF TypeOK
<1>4. x <= t - u /\ (x = 0 \/ t - x >= MinCharge)
  BY <1>1, <1>2
<1>5. u <= t - x /\ t - x <= t /\ t - (t - x) = x /\ (t - x >= MinCharge \/ t - x = t)
  BY <1>4
<1> QED
  BY <1>1, <1>2, <1>3, <1>5 DEF Asked

LEMMA AskedStep ==
    ASSUME TypeOK, PledgesOK, [Next]_vars, NEW p \in Pledge
    PROVE  Asked(p)
<1>1. ASSUME stripe' = stripe PROVE Asked(p)
  BY <1>1 DEF Asked
<1>2. ASSUME NEW q \in Pledge, RequestStep(q) PROVE Asked(p)
  <2>1. CASE OpenSession(q)
    <3>1. CASE q = p
      BY <2>1, <3>1, OpensSoundly
    <3>2. CASE q # p
      BY <2>1, <3>2 DEF OpenSession, TypeOK, Asked
    <3> QED
      BY <3>1, <3>2
  <2>2. CASE ~OpenSession(q)
    BY <1>1, <1>2, <2>2 DEF RequestStep, Create, ReadDonor, SpendWallet, StoreDiscount,
                            CheckoutFails, session
  <2> QED
    BY <2>1, <2>2
<1>3. ASSUME NEW q \in Pledge, NEW d \in Donor, Pay(q, d) PROVE Asked(p)
  BY <1>3 DEF Pay, TypeOK, Asked
<1>4. ASSUME NEW q \in Pledge, Webhook(q) \/ Lapse(q) PROVE stripe' = stripe
  BY <1>4 DEF Webhook, Process, Lapse, session
<1>5. ASSUME NEW x, NEW d, NEW c, NEW tokens, Manual(x, d, c, tokens) PROVE stripe' = stripe
  BY <1>5 DEF Manual, Process, session
<1>6. ASSUME NEW d, NEW c, SpendElsewhere(d, c) \/ Reprice(c) PROVE stripe' = stripe
  BY <1>6 DEF SpendElsewhere, Reprice, session
<1>7. CASE UNCHANGED vars
  BY <1>1, <1>7 DEF vars, session
<1> QED
  BY <1>1, <1>2, <1>3, <1>4, <1>5, <1>6, <1>7 DEF Next

\* The charge of every session keeps the additional contribution and Stripe's minimum,
\* and gives no more than the wallet held when it was read (createCheckoutSession).
THEOREM ChargeSoundHolds == Spec => ChargeSound
<1>1. TypeOK /\ PledgeInv /\ [Next]_vars => [\A p \in Pledge : Asked(p)]_vars
  BY AskedStep, InvSplit
<1>2. Spec => [][\A p \in Pledge : Asked(p)]_vars
  BY <1>1, PledgeCorrect, PTL DEF Spec
<1> QED
  BY <1>2 DEF ChargeSound, Asked

\* Claims come with the payment that finds an OPEN pledge, or with a wallet checkout.
ClaimedOnce == \A c \in claims' \ claims : ~IsWallet(c.donation) => status[c.pledge] = "OPEN"

LEMMA ClaimedStep ==
    ASSUME TypeOK, PledgesOK, [Next]_vars
    PROVE  ClaimedOnce
<1>1. ASSUME claims' = claims PROVE ClaimedOnce
  BY <1>1 DEF ClaimedOnce
<1>2. ASSUME NEW id, NEW d, NEW credit, NEW found, Outcome(id, d, credit, found)
      PROVE  ClaimedOnce
  BY <1>2 DEF Outcome, ClaimedOnce
<1>3. ASSUME NEW p \in Pledge, SpendWallet(p) PROVE ClaimedOnce
  <2>1. PICK id, d, L, n : id = <<"wallet", p>> /\ Filled(id, d, 0, L, n)
    BY <1>3, SpendWalletFills
  <2>2. \A c \in claims' \ claims : c.donation = id
    BY <2>1 DEF Filled, Takings
  <2>3. IsWallet(id)
    BY <2>1 DEF IsWallet
  <2>4. \A c \in claims' \ claims : IsWallet(c.donation)
    BY <2>2, <2>3
  <2> QED
    BY <2>4 DEF ClaimedOnce
<1>4. ASSUME NEW p \in Pledge, RequestStep(p), ~SpendWallet(p) PROVE claims' = claims
  BY <1>4 DEF RequestStep, Create, ReadDonor, StoreDiscount, OpenSession, CheckoutFails, wallets
<1>5. ASSUME NEW p \in Pledge, Webhook(p) PROVE ClaimedOnce
  BY <1>2, <1>5, WebhookIs
<1>6. ASSUME NEW x \in External, NEW d \in Donor, NEW c \in Amounts,
             NEW tokens \in {{}} \cup {{p} : p \in Pledge}, Manual(x, d, c, tokens)
      PROVE  ClaimedOnce
  <2>1. tokens \in SUBSET Pledge
    OBVIOUS
  <2> QED
    BY <1>2, <1>6, <2>1, ManualIs
<1>7. ASSUME NEW p, Lapse(p) PROVE claims' = claims
  BY <1>7 DEF Lapse, wallets
<1>8. ASSUME NEW p, NEW d, Pay(p, d) \/ SpendElsewhere(d, p) \/ Reprice(p)
      PROVE  claims' = claims
  BY <1>8 DEF Pay, SpendElsewhere, Reprice, wallets
<1>9. CASE UNCHANGED vars
  BY <1>1, <1>9 DEF vars, wallets
<1> QED
  BY <1>1, <1>3, <1>4, <1>5, <1>6, <1>7, <1>8, <1>9 DEF Next

\* No payment spends for a pledge that is fulfilled already, whoever repeats it and
\* however it finds the pledge (resolvePendingPledge, fulfillPledge).
THEOREM PaymentFulfilsOnceHolds == Spec => PaymentFulfilsOnce
<1>1. TypeOK /\ PledgeInv /\ [Next]_vars => [ClaimedOnce]_vars
  BY ClaimedStep, InvSplit
<1>2. Spec => [][ClaimedOnce]_vars
  BY <1>1, PledgeCorrect, PTL DEF Spec
<1> QED
  BY <1>2 DEF PaymentFulfilsOnce, ClaimedOnce

Fulfils(p) ==
    /\ <<"session", p>> \in DOMAIN donations' \ DOMAIN donations
    /\ p \notin lapsed /\ faults' = faults
    => status'[p] = "FULFILLED"

\* The row never asks for more than the session charged and the discount gave.
LEMMA PaidFindsItsPledge ==
    ASSUME TypeOK, PledgesOK, NEW p \in Pledge, Webhook(p), p \notin lapsed,
           faults' = faults
    PROVE  status'[p] = "FULFILLED"
<1>1. RestType /\ PledgeOK(p) /\ stripe[p] = "paid"
  BY TypeSplit DEF PledgesOK, Webhook
<1>2. PICK id, d, cents, credit, found :
         /\ cents \in Nat /\ charge[p] <= cents
         /\ found = Resolve({p}, d, cents)
         /\ Outcome(id, d, credit, found)
  BY WebhookIs
<1>3. status[p] \in {"OPEN", "FULFILLED"}
  BY <1>1 DEF RestType, PledgeStatus, PledgeOK, StageOK
<1>4. CASE status[p] = "FULFILLED"
  BY <1>2, <1>4 DEF Outcome, Settles
<1>5. CASE status[p] = "OPEN"
  <2>1. PICK t, g, n \in Nat : t = cart[p].total /\ g = charge[p] /\ n = discount[p]
    BY <1>1 DEF RestType, Cart
  <2>2. t <= g + n
    BY <1>1, <2>1 DEF PledgeOK, PriceOK
  <2>3. t <= cents + n
    BY <1>2, <2>1, <2>2
  <2>4. ByToken({p}, cents) = {p}
    BY <1>5, <2>1, <2>3 DEF ByToken, OpenFor
  <2>5. found = {p}
    BY <1>2, <2>4 DEF Resolve
  <2> QED
    BY <1>2, <2>5 DEF Outcome
<1> QED
  BY <1>3, <1>4, <1>5

LEMMA FulfilsStep ==
    ASSUME TypeOK, PledgesOK, [Next]_vars, NEW p \in Pledge
    PROVE  Fulfils(p)
<1>1. ASSUME DOMAIN donations' = DOMAIN donations PROVE Fulfils(p)
  BY <1>1 DEF Fulfils
<1>2. ASSUME NEW id, id # <<"session", p>>, DOMAIN donations' = DOMAIN donations \cup {id}
      PROVE  Fulfils(p)
  BY <1>2 DEF Fulfils
<1>3. ASSUME NEW q \in Pledge, SpendWallet(q) PROVE Fulfils(p)
  <2>1. PICK id, d, L, n : id = <<"wallet", q>> /\ Filled(id, d, 0, L, n)
    BY <1>3, SpendWalletFills
  <2>2. id # <<"session", p>>
    BY <2>1
  <2> QED
    BY <1>2, <2>1, <2>2 DEF Filled
<1>4. ASSUME NEW q \in Pledge, RequestStep(q), ~SpendWallet(q) PROVE Fulfils(p)
  <2>1. donations' = donations
    BY <1>4 DEF RequestStep, Create, ReadDonor, StoreDiscount, OpenSession, CheckoutFails,
                wallets
  <2> QED
    BY <1>1, <2>1
<1>5. ASSUME NEW q \in Pledge, Webhook(q) PROVE Fulfils(p)
  <2>1. CASE q = p
    BY <1>5, <2>1, PaidFindsItsPledge DEF Fulfils
  <2>2. CASE q # p
    <3>1. PICK id, d, credit, found : id = <<"session", q>> /\ Outcome(id, d, credit, found)
      BY <1>5, WebhookIs
    <3>2. DOMAIN donations' = DOMAIN donations \cup {id}
      BY <3>1 DEF Outcome, Filled
    <3>3. id # <<"session", p>>
      BY <2>2, <3>1
    <3> QED
      BY <1>2, <3>2, <3>3
  <2> QED
    BY <2>1, <2>2
<1>6. ASSUME NEW x \in External, NEW d \in Donor, NEW c \in Amounts,
             NEW tokens \in {{}} \cup {{q} : q \in Pledge}, Manual(x, d, c, tokens)
      PROVE  Fulfils(p)
  <2>1. tokens \in SUBSET Pledge
    OBVIOUS
  <2>2. PICK id, credit, found : id = <<"manual", x>> /\ Outcome(id, d, credit, found)
    BY <1>6, <2>1, ManualIs
  <2>3. DOMAIN donations' = DOMAIN donations \cup {id}
    BY <2>2 DEF Outcome, Filled
  <2>4. id # <<"session", p>>
    BY <2>2
  <2> QED
    BY <1>2, <2>3, <2>4
<1>7. ASSUME NEW q, Lapse(q) PROVE donations' = donations
  BY <1>7 DEF Lapse, wallets
<1>8. ASSUME NEW q, NEW d, Pay(q, d) \/ SpendElsewhere(d, q) \/ Reprice(q)
      PROVE  donations' = donations
  BY <1>8 DEF Pay, SpendElsewhere, Reprice, wallets
<1>9. CASE UNCHANGED vars
  BY <1>1, <1>9 DEF vars, wallets
<1> QED
  BY <1>1, <1>3, <1>4, <1>5, <1>6, <1>7, <1>8, <1>9 DEF Next

\* Who pays a session before its pledge lapses gets the pledge fulfilled, by this
\* payment or by an earlier one, unless a statement of the fulfilment fails.
THEOREM PaidMeansFulfilledHolds == Spec => PaidMeansFulfilled
<1>1. TypeOK /\ PledgeInv /\ [Next]_vars => [\A p \in Pledge : Fulfils(p)]_vars
  BY FulfilsStep, InvSplit
<1>2. Spec => [][\A p \in Pledge : Fulfils(p)]_vars
  BY <1>1, PledgeCorrect, PTL DEF Spec
<1> QED
  BY <1>2 DEF PaidMeansFulfilled, Fulfils
=============================================================================
