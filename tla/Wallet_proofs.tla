----------------------------- MODULE Wallet_proofs -----------------------------
(***************************************************************************)
(* Proofs about Wallet for every set of donors, donations, prices, amounts *)
(* and poll options, every stock and target, and every number of staff     *)
(* requests and of rows.                                                   *)
(***************************************************************************)
EXTENDS Wallet, SequenceTheorems, SumTheorems, TLAPS

Status == {"PENDING", "FULFILLED", "REVERSED"}
OptionStatus == {"NONE", "ACTIVE", "PENDING_APPROVAL", "REJECTED"}
EntryStatuses == {"NONE", "PENDING", "APPROVED", "REJECTED"}
Amount == Cents \cup Prices
NewRow(d, i, c) ==
    [donor |-> d, item |-> i, cents |-> c, status |-> "PENDING", refunds |-> 0]

-----------------------------------------------------------------------------
(* Types: the rows.                                                        *)

LEMMA AmountsAreNumbers ==
    /\ \A c \in Amount : c \in Nat
    /\ \A c \in Adjustments : c \in Int
    /\ \A c \in Cents : c \in Nat
    /\ \A s \in Shipping : s \in Nat
  BY ConstantsAssumption DEF Amount

LEMMA RowsAreASequence ==
    ASSUME spends \in Seq(Spend)
    PROVE  /\ Len(spends) \in Nat /\ Row = 1..Len(spends) /\ IsFiniteSet(Row)
           /\ spends \in [Row -> Spend]
<1>1. Len(spends) \in Nat /\ Row = 1..Len(spends) /\ spends \in [1..Len(spends) -> Spend]
  BY LenProperties DEF Row
<1>2. IsFiniteSet(1..Len(spends))
  BY <1>1, FS_Interval
<1> QED
  BY <1>1, <1>2

\* What a row is made of.
LEMMA RowIs ==
    ASSUME spends \in Seq(Spend), NEW k \in Row
    PROVE  /\ spends[k].donor \in Donor /\ spends[k].item \in Item
           /\ spends[k].cents \in Amount /\ spends[k].cents \in Nat
           /\ spends[k].status \in Status /\ spends[k].refunds \in Nat
           /\ Paid[k] = spends[k].cents /\ Paid[k] \in Int
<1>1. spends[k] \in Spend
  BY RowsAreASequence
<1>2. /\ spends[k].donor \in Donor /\ spends[k].item \in Item
      /\ spends[k].cents \in Amount
      /\ spends[k].status \in Status /\ spends[k].refunds \in Nat
  BY <1>1 DEF Spend, Amount, Status
<1>3. Paid[k] = spends[k].cents
  BY DEF Paid
<1> QED
  BY <1>2, <1>3, AmountsAreNumbers

LEMMA SumIs ==
    ASSUME NEW rows, NEW worth
    PROVE  SumOf(rows, worth) = Total(rows, worth)
  BY DEF SumOf, Total

\* Totals over rows are integers.
LEMMA SumOfRowsType ==
    ASSUME spends \in Seq(Spend), NEW R \in SUBSET Row, NEW w, \A k \in Row : w[k] \in Int
    PROVE  SumOf(R, w) \in Int
<1>1. Total(R, w) \in Int
  BY RowsAreASequence, TotalType
<1> QED
  BY <1>1, SumIs

\* A spend appends n rows and takes what they cost.
Bought(d, i, c, n) ==
    /\ spends' \in Seq(Spend) /\ Row \subseteq Row'
    /\ Row' = Row \cup (Len(spends) + 1)..(Len(spends) + n)
    /\ \A k \in Row : spends[k]' = spends[k]
    /\ \A k \in (Len(spends) + 1)..(Len(spends) + n) : spends[k]' = NewRow(d, i, c)
    /\ balance' = [balance EXCEPT ![d] = @ - n * c]
    /\ balance' \in [Donor -> Int]

LEMMA SpendsBuys ==
    ASSUME TypeOK, NEW d \in Donor, NEW i \in Item, NEW c \in Amount, NEW n \in Nat,
           Spends(d, i, c, n)
    PROVE  Bought(d, i, c, n)
<1> DEFINE t == [k \in 1..n |-> NewRow(d, i, c)]
<1>1. spends \in Seq(Spend) /\ balance \in [Donor -> Int]
  BY DEF TypeOK
<1>2. NewRow(d, i, c) \in Spend
  BY DEF NewRow, Spend, Amount
<1>3. t \in Seq(Spend) /\ Len(t) = n
  <2>1. t \in [1..n -> Spend]
    BY <1>2
  <2> HIDE DEF t
  <2>2. t \in Seq(Spend)
    BY <2>1, SeqDef
  <2> QED
    BY <2>1, <2>2, LenProperties
<1>4. spends' = spends \o t
  BY DEF Spends, NewRow
<1>5. \A k \in 1..n : t[k] = NewRow(d, i, c)
  OBVIOUS
<1> HIDE DEF t
<1>6. /\ spends \o t \in Seq(Spend)
      /\ Len(spends \o t) = Len(spends) + n
      /\ \A k \in 1..(Len(spends) + n) :
            (spends \o t)[k] = IF k <= Len(spends) THEN spends[k] ELSE t[k - Len(spends)]
  BY <1>1, <1>3, ConcatProperties
<1>7. Len(spends) \in Nat /\ Row = 1..Len(spends)
  BY <1>1, RowsAreASequence
<1>8. spends' \in Seq(Spend) /\ Row' = 1..(Len(spends) + n)
  <2>1. DOMAIN (spends \o t) = 1..(Len(spends) + n)
    BY <1>6, LenProperties
  <2> QED
    BY <1>4, <1>6, <2>1 DEF Row
<1>9. \A k \in Row : spends[k]' = spends[k]
  BY <1>4, <1>6, <1>7
<1>10. \A k \in (Len(spends) + 1)..(Len(spends) + n) : spends[k]' = NewRow(d, i, c)
  BY <1>4, <1>5, <1>6, <1>7
<1>11. balance' = [balance EXCEPT ![d] = @ - n * c] /\ balance' \in [Donor -> Int]
  <2>1. balance' = [balance EXCEPT ![d] = @ - n * c]
    BY DEF Spends
  <2>2. n * c \in Int
    BY AmountsAreNumbers
  <2> QED
    BY <1>1, <2>1, <2>2
<1>12. Row' = Row \cup (Len(spends) + 1)..(Len(spends) + n)
  BY <1>7, <1>8
<1> QED
  BY <1>8, <1>9, <1>10, <1>11, <1>12 DEF Bought

\* A refund marks the rows R, and the balances and the adjustments move alike.
Alike ==
    /\ balance' \in [Donor -> Int] /\ adjusted' \in [Donor -> Int]
    /\ \A e \in Donor : balance[e]' - adjusted[e]' = balance[e] - adjusted[e]

Returned(R) ==
    /\ spends' \in Seq(Spend) /\ Row' = Row
    /\ \A k \in Row :
          /\ spends[k].donor' = spends[k].donor /\ spends[k].item' = spends[k].item
          /\ spends[k].cents' = spends[k].cents
          /\ spends[k].refunds' = spends[k].refunds + IF k \in R THEN 1 ELSE 0

LEMMA RefundedRow ==
    ASSUME NEW x \in Spend
    PROVE  LET y == [x EXCEPT !.status = "REVERSED", !.refunds = @ + 1]
           IN  /\ y \in Spend /\ y.donor = x.donor /\ y.item = x.item /\ y.cents = x.cents
               /\ y.refunds = x.refunds + 1
<1> DEFINE y == [x EXCEPT !.status = "REVERSED", !.refunds = @ + 1]
<1>1. x.refunds + 1 \in Nat
  BY DEF Spend
<1>2. PICK n \in Nat : n = x.refunds + 1
  BY <1>1
<1>3. y = [x EXCEPT !.status = "REVERSED", !.refunds = n]
  BY <1>2
<1> HIDE DEF y
<1>4. y \in Spend /\ y.donor = x.donor /\ y.item = x.item /\ y.cents = x.cents
      /\ y.refunds = n
  BY <1>3 DEF Spend
<1> QED
  BY <1>2, <1>4 DEF y

LEMMA GiveBackReturns ==
    ASSUME TypeOK, NEW R \in SUBSET Row, NEW w, \A k \in Row : w[k] \in Int, GiveBack(R, w)
    PROVE  Returned(R) /\ Alike
<1> DEFINE owed(e) == SumOf({k \in R : spends[k].donor = e}, w)
<1>1. /\ spends \in Seq(Spend) /\ balance \in [Donor -> Int] /\ adjusted \in [Donor -> Int]
      /\ Len(spends) \in Nat /\ Row = 1..Len(spends)
  BY RowsAreASequence DEF TypeOK
<1>2. \A e \in Donor : owed(e) \in Int
  BY <1>1, SumOfRowsType
<1>3. /\ balance' = [e \in Donor |-> balance[e] + owed(e)]
      /\ adjusted' = [e \in Donor |-> adjusted[e] + owed(e)]
  BY DEF GiveBack
<1>4. Alike
  <2> HIDE DEF owed
  <2>1. balance' \in [Donor -> Int] /\ adjusted' \in [Donor -> Int]
    BY <1>1, <1>2, <1>3
  <2>2. ASSUME NEW e \in Donor PROVE balance[e]' - adjusted[e]' = balance[e] - adjusted[e]
    <3>1. balance[e]' = balance[e] + owed(e) /\ adjusted[e]' = adjusted[e] + owed(e)
      BY <1>3
    <3>2. balance[e] \in Int /\ adjusted[e] \in Int /\ owed(e) \in Int
      BY <1>1, <1>2
    <3> QED
      BY <3>1, <3>2
  <2> QED
    BY <2>1, <2>2 DEF Alike
<1> DEFINE sp == [k \in Row |->
               IF k \in R THEN [spends[k] EXCEPT !.status = "REVERSED", !.refunds = @ + 1]
                          ELSE spends[k]]
<1>5. spends' = sp
  BY DEF GiveBack
<1>6. ASSUME NEW k \in Row
      PROVE  /\ sp[k] \in Spend
             /\ sp[k].donor = spends[k].donor /\ sp[k].item = spends[k].item
             /\ sp[k].cents = spends[k].cents
             /\ sp[k].refunds = spends[k].refunds + IF k \in R THEN 1 ELSE 0
  <2>1. spends[k] \in Spend
    BY <1>1, RowsAreASequence
  <2>2. spends[k].refunds \in Nat
    BY <1>1, RowIs
  <2>3. CASE k \in R
    <3>1. sp[k] = [spends[k] EXCEPT !.status = "REVERSED", !.refunds = @ + 1]
      BY <2>3
    <3> HIDE DEF sp
    <3> QED
      BY <2>1, <2>2, <2>3, <3>1, RefundedRow
  <2>4. CASE k \notin R
    <3>1. sp[k] = spends[k]
      BY <2>4
    <3> HIDE DEF sp
    <3> QED
      BY <2>1, <2>2, <2>4, <3>1
  <2> QED
    BY <2>3, <2>4
<1>7. sp \in [1..Len(spends) -> Spend] /\ DOMAIN sp = Row
  BY <1>1, <1>6
<1> HIDE DEF sp
<1>8. sp \in Seq(Spend)
  BY <1>1, <1>7, SeqDef
<1>9. Returned(R)
  <2>1. Row' = Row
    BY <1>5, <1>7 DEF Row
  <2> QED
    BY <1>5, <1>6, <1>8, <2>1 DEF Returned
<1> QED
  BY <1>4, <1>9

-----------------------------------------------------------------------------
(* Types: the requests and the steps.                                      *)

\* What a request holds, by what it does.
IsAdjust(q) == q.op = "adjust" /\ q.donor \in Donor /\ q.cents \in Int
IsSweep(q) == q.op = "sweep" /\ q.took \in [Donor -> Nat]
IsReverse(q) ==
    /\ q.op = "reverse" /\ q.row \in Row /\ q.cents \in Amount
    /\ q.flag \in BOOLEAN /\ q.ready \in BOOLEAN
IsModerate(q) ==
    q.op = "moderate" /\ q.option \in Custom /\ (q.ready => q.row \in Row)

LEMMA RequestIs ==
    ASSUME TypeOK, NEW r \in Staff
    PROVE  /\ request[r] \in Request
           /\ request[r].op = "adjust" => IsAdjust(request[r])
           /\ request[r].op = "sweep" => IsSweep(request[r])
           /\ request[r].op = "reverse" => IsReverse(request[r])
           /\ request[r].op = "moderate" => IsModerate(request[r])
<1>1. PICK q \in Request : q = request[r]
  BY DEF TypeOK
<1>2. q = Idle \/ IsAdjust(q) \/ IsSweep(q) \/ IsReverse(q) \/ IsModerate(q)
  <2>1. CASE q \in [op : {"adjust"}, donor : Donor, cents : Adjustments, ready : {TRUE}]
    BY <2>1, AmountsAreNumbers DEF IsAdjust
  <2>2. CASE q \in [op : {"sweep"}, took : [Donor -> Nat], ready : {TRUE}]
    BY <2>2 DEF IsSweep
  <2>3. CASE q \in [op : {"reverse"}, row : Row, cents : Cents \cup Prices,
                    ready : BOOLEAN, flag : BOOLEAN]
    BY <2>3 DEF IsReverse, Amount
  <2>4. CASE q \in [op : {"moderate"}, option : Custom, verdict : {"APPROVED", "REJECTED"},
                    row : Row, ready : {TRUE}]
    BY <2>4 DEF IsModerate
  <2>5. CASE q \in [op : {"moderate"}, option : Custom, verdict : {"APPROVED", "REJECTED"},
                    row : {0}, ready : {FALSE}]
    BY <2>5 DEF IsModerate
  <2> QED
    BY <2>1, <2>2, <2>3, <2>4, <2>5 DEF Request
<1>3. Idle.op = "idle"
  BY DEF Idle
<1> QED
  BY <1>1, <1>2, <1>3 DEF IsAdjust, IsSweep, IsReverse, IsModerate

\* More rows make more requests possible.
LEMMA RequestsKept ==
    ASSUME TypeOK, Row \subseteq Row', UNCHANGED request
    PROVE  (request \in [Staff -> Request])'
<1>1. Request \subseteq Request'
  <2> SUFFICES ASSUME NEW q \in Request PROVE q \in Request'
    OBVIOUS
  <2> QED
    BY DEF Request
<1> QED
  BY <1>1 DEF TypeOK

LEMMA StartsType ==
    ASSUME TypeOK, NEW r \in Staff, NEW q \in Request, Starts(r, q)
    PROVE  TypeOK'
<1>1. UNCHANGED <<balance, donations, spends, adjusted, price, tally, total, complete,
                   option, entry>>
  BY DEF Starts
<1>2. Request' = Request
  BY <1>1 DEF Request, Row
<1>3. request' \in [Staff -> Request]
  BY DEF Starts, TypeOK
<1>4. requests' \in 0..MaxRequests
  BY ConstantsAssumption DEF Starts, TypeOK
<1> QED
  BY <1>1, <1>2, <1>3, <1>4 DEF TypeOK

\* The part of the state that the wallets do not need is typed.
RestType ==
    /\ price \in Prices /\ tally \in [Item -> Int] /\ total \in Int
    /\ complete \in BOOLEAN
    /\ option \in [Option -> OptionStatus]
    /\ entry \in [Custom -> EntryStatuses]
WalletType ==
    /\ balance \in [Donor -> Int] /\ adjusted \in [Donor -> Int]
    /\ DOMAIN donations \subseteq External /\ IsFiniteSet(DOMAIN donations)
    /\ donations \in [DOMAIN donations -> Donation]
    /\ spends \in Seq(Spend)
RequestType == request \in [Staff -> Request] /\ requests \in 0..MaxRequests

LEMMA TypeParts == TypeOK <=> WalletType /\ RestType /\ RequestType
  BY DEF TypeOK, WalletType, RestType, RequestType, OptionStatus, EntryStatuses

LEMMA TypePartsNext == TypeOK' <=> WalletType' /\ RestType' /\ RequestType'
  BY DEF TypeOK, WalletType, RestType, RequestType, OptionStatus, EntryStatuses

LEMMA RequestTypeKept ==
    ASSUME TypeOK, Row \subseteq Row', UNCHANGED rest
    PROVE  RequestType'
  BY RequestsKept DEF RequestType, rest, TypeOK

LEMMA EndsType ==
    ASSUME TypeOK, Row' = Row, NEW r \in Staff, NEW op, Ends(r, op)
    PROVE  RequestType'
<1>1. Request' = Request
  BY DEF Request
<1>2. Idle \in Request
  BY DEF Request
<1>3. request' \in [Staff -> Request]
  BY <1>2 DEF Ends, TypeOK
<1> QED
  BY <1>1, <1>3 DEF RequestType, Ends, TypeOK

\* A spend: the wallet and the requests.
LEMMA BoughtType ==
    ASSUME TypeOK, NEW d \in Donor, NEW i \in Item, NEW c \in Amount, NEW n \in Nat,
           Spends(d, i, c, n), UNCHANGED <<donations, adjusted, rest>>
    PROVE  WalletType' /\ RequestType'
<1>1. Bought(d, i, c, n)
  BY SpendsBuys
<1>2. RequestType'
  BY <1>1, RequestTypeKept DEF Bought
<1> QED
  BY <1>1, <1>2 DEF Bought, WalletType, TypeOK

\* A refund: the wallet.
LEMMA ReturnedType ==
    ASSUME TypeOK, NEW R \in SUBSET Row, NEW w, \A k \in Row : w[k] \in Int, GiveBack(R, w),
           UNCHANGED donations
    PROVE  WalletType' /\ Row' = Row
<1>1. Returned(R) /\ Alike
  BY GiveBackReturns
<1> QED
  BY <1>1 DEF Returned, Alike, WalletType, TypeOK

-----------------------------------------------------------------------------
(* Types: each action.                                                     *)

\* A new donation: the others stay, and one row is added.
LEMMA DonateAdds ==
    ASSUME TypeOK, NEW x \in External, NEW d \in Donor, NEW c \in Cents, NEW s \in Shipping,
           Donate(x, d, c, s)
    PROVE  /\ DOMAIN donations' = DOMAIN donations \cup {x} /\ x \notin DOMAIN donations
           /\ donations[x]' =
                 [donor |-> d, cents |-> c, shipping |-> s,
                  status |-> "COMPLETED", clawbacks |-> << >>]
           /\ \A y \in DOMAIN donations : donations[y]' = donations[y]
           /\ balance' = [balance EXCEPT ![d] = @ + c - s]
           /\ TypeOK'
<1> DEFINE new == [donor |-> d, cents |-> c, shipping |-> s,
                   status |-> "COMPLETED", clawbacks |-> << >>]
<1>1. /\ x \notin DOMAIN donations
      /\ donations' = [y \in DOMAIN donations \cup {x} |-> IF y = x THEN new ELSE donations[y]]
      /\ balance' = [balance EXCEPT ![d] = @ + c - s]
      /\ UNCHANGED <<spends, adjusted, price, tally, total, complete, option, entry, rest>>
  BY DEF Donate, IsNew, poll
<1>2. new \in Donation
  <2>1. << >> \in Seq(Int)
    BY EmptySeq
  <2> QED
    BY <2>1 DEF Donation
<1> HIDE DEF new
<1>3. /\ DOMAIN donations' = DOMAIN donations \cup {x} /\ donations[x]' = new
      /\ \A y \in DOMAIN donations : donations[y]' = donations[y]
  BY <1>1
<1>4. (donations \in [DOMAIN donations -> Donation])'
  BY <1>1, <1>2, <1>3 DEF TypeOK
<1>5. (DOMAIN donations \subseteq External /\ IsFiniteSet(DOMAIN donations))'
  <2>1. DOMAIN donations \subseteq External /\ IsFiniteSet(DOMAIN donations)
    BY DEF TypeOK
  <2>2. IsFiniteSet(DOMAIN donations \cup {x})
    BY <2>1, FS_AddElement
  <2> QED
    BY <1>3, <2>1, <2>2
<1>6. balance' \in [Donor -> Int]
  BY <1>1, AmountsAreNumbers DEF TypeOK
<1>7. WalletType'
  BY <1>1, <1>4, <1>5, <1>6 DEF WalletType, TypeOK
<1>8. RequestType' /\ RestType'
  BY <1>1, RequestTypeKept, TypeParts DEF Row, RestType
<1> QED
  BY <1>1, <1>3, <1>7, <1>8, TypePartsNext DEF new

\* What a donation's row is made of.
LEMMA DonationIs ==
    ASSUME TypeOK, NEW x \in DOMAIN donations
    PROVE  /\ donations[x].donor \in Donor
           /\ donations[x].cents \in Nat /\ donations[x].shipping \in Nat
           /\ donations[x].clawbacks \in Seq(Int)
<1>1. donations[x] \in Donation
  BY DEF TypeOK
<1>2. /\ donations[x].donor \in Donor
      /\ donations[x].cents \in Cents /\ donations[x].shipping \in Shipping
      /\ donations[x].clawbacks \in Seq(Int)
  BY <1>1 DEF Donation
<1> QED
  BY <1>2, AmountsAreNumbers

LEMMA LesserIs ==
    ASSUME NEW a \in Int, NEW b \in Int
    PROVE  Min({a, b}) \in Int /\ Min({a, b}) <= a /\ Min({a, b}) <= b
<1>1. \E m \in {a, b} : \A y \in {a, b} : m =< y
  <2>1. a <= b \/ b <= a
    OBVIOUS
  <2>2. a <= a /\ b <= b
    OBVIOUS
  <2> QED
    BY <2>1, <2>2
<1>2. Min({a, b}) \in {a, b} /\ \A y \in {a, b} : Min({a, b}) =< y
  BY <1>1 DEF Min
<1> QED
  BY <1>2

\* A change of status: balances and adjustments move alike, and the donation
\* keeps its donor and its amounts.
LEMMA StatusChanges ==
    ASSUME TypeOK, NEW x \in DOMAIN donations,
           NEW st \in {"PENDING", "COMPLETED", "REFUNDED", "CHARGEBACK"},
           SetStatus(x, st)
    PROVE  /\ TypeOK' /\ Alike
           /\ DOMAIN donations' = DOMAIN donations
           /\ \A y \in DOMAIN donations :
                 /\ donations[y].donor' = donations[y].donor
                 /\ donations[y].cents' = donations[y].cents
                 /\ donations[y].shipping' = donations[y].shipping
           /\ \A y \in DOMAIN donations \ {x} : donations[y]' = donations[y]
           /\ donations[x].clawbacks = << >>
           /\ \/ donations[x].clawbacks' = << >>
              \/ \E n \in Int : n <= donations[x].cents /\ donations[x].clawbacks' = <<n>>
<1>1. PICK d \in Donor : d = donations[x].donor
  BY DonationIs
<1>2. balance[d] \in Int /\ donations[x].cents \in Int
  BY DonationIs DEF TypeOK
<1>3. PICK n \in Int : n = Min({donations[x].cents, balance[d]}) /\ n <= donations[x].cents
  BY <1>2, LesserIs
<1>4. UNCHANGED <<spends, price, tally, complete, total, option, entry, rest>>
  BY DEF SetStatus, poll
<1>5. Alike
  <2>1. \/ balance' = balance /\ adjusted' = adjusted
        \/ /\ balance' = [balance EXCEPT ![d] = @ - n]
           /\ adjusted' = [adjusted EXCEPT ![d] = @ - n]
    BY <1>1, <1>3 DEF SetStatus
  <2>2. balance \in [Donor -> Int] /\ adjusted \in [Donor -> Int]
    BY DEF TypeOK
  <2> QED
    BY <2>1, <2>2 DEF Alike
<1>6. PICK cs \in Seq(Int) :
         /\ donations' = [donations EXCEPT ![x] = [@ EXCEPT !.status = st, !.clawbacks = cs]]
         /\ cs = << >> \/ cs = <<n>>
  <2>1. donations[x].clawbacks = << >>
    BY DEF SetStatus, MayBecome
  <2>2. Append(donations[x].clawbacks, n) = <<n>>
    BY <2>1
  <2>3. << >> \in Seq(Int) /\ <<n>> \in Seq(Int)
    BY EmptySeq
  <2>4. donations' =
           [donations EXCEPT ![x].status = st,
               ![x].clawbacks = IF st \in {"REFUNDED", "CHARGEBACK"} THEN <<n>> ELSE << >>]
    BY <1>1, <1>3, <2>1, <2>2 DEF SetStatus
  <2>5. PICK cs \in Seq(Int) :
           cs = (IF st \in {"REFUNDED", "CHARGEBACK"} THEN <<n>> ELSE << >>)
    BY <2>3
  <2> QED
    BY <2>4, <2>5
<1>7. DOMAIN donations' = DOMAIN donations
  BY <1>6
<1>8. \A y \in DOMAIN donations \ {x} : donations[y]' = donations[y]
  BY <1>6
<1>9. donations[x]' = [donations[x] EXCEPT !.status = st, !.clawbacks = cs]
  BY <1>6 DEF TypeOK
<1>10. donations[x] \in Donation
  BY DEF TypeOK
<1>11. /\ donations[x]' \in Donation /\ donations[x].donor' = donations[x].donor
       /\ donations[x].cents' = donations[x].cents
       /\ donations[x].shipping' = donations[x].shipping
       /\ donations[x].clawbacks' = cs
  BY <1>9, <1>10 DEF Donation
<1>12. (donations \in [DOMAIN donations -> Donation])'
  BY <1>6, <1>7, <1>8, <1>11 DEF TypeOK
<1>13. WalletType'
  BY <1>4, <1>5, <1>7, <1>12 DEF WalletType, Alike, TypeOK
<1>14. RequestType' /\ RestType'
  BY <1>4, RequestTypeKept, TypeParts DEF Row, RestType
<1>15. donations[x].clawbacks = << >>
  BY DEF SetStatus, MayBecome
<1>16. TypeOK'
  BY <1>13, <1>14, TypePartsNext
<1>17. \A y \in DOMAIN donations :
          /\ donations[y].donor' = donations[y].donor
          /\ donations[y].cents' = donations[y].cents
          /\ donations[y].shipping' = donations[y].shipping
  BY <1>8, <1>11
<1>18. \/ donations[x].clawbacks' = << >>
       \/ \E m \in Int : m <= donations[x].cents /\ donations[x].clawbacks' = <<m>>
  BY <1>3, <1>6, <1>11
<1> QED
  BY <1>5, <1>7, <1>8, <1>15, <1>16, <1>17, <1>18

-----------------------------------------------------------------------------
(* Each step is a donation, a spend, or a refund of some rows.             *)

\* What a row adds to the tally of its item.
Each == [k \in Row |-> IF spends[k].item = "reward" THEN 1 ELSE spends[k].cents]

DonationsKept ==
    /\ DOMAIN donations' = DOMAIN donations
    /\ \A y \in DOMAIN donations :
          /\ donations[y].donor' = donations[y].donor
          /\ donations[y].cents' = donations[y].cents
          /\ donations[y].shipping' = donations[y].shipping

\* The tally of i moves by x, and the total of the poll with it.
TallyMoves(i, x) ==
    /\ \A j \in Item : tally[j]' = tally[j] + IF j = i THEN x ELSE 0
    /\ total' = total + IF i \in Option THEN x ELSE 0

\* n rows of c cents each: the reward counts the rows, the goal their cents.
Buys(d, i, c, n, x) ==
    /\ Bought(d, i, c, n) /\ UNCHANGED <<donations, adjusted>>
    /\ TallyMoves(i, x)
    /\ i = "reward" => x = n
    /\ i = "goal" => x = n * c

\* The rows R of i are given back; no row at all when money or tallies move alone.
Gives(R, i, x) ==
    /\ Returned(R) /\ Alike /\ DonationsKept
    /\ TallyMoves(i, -x)
    /\ \A k \in R : spends[k].item = i
    /\ i \in {"reward", "goal"} => x = Total(R, Each)

DonateStep ==
    \E x \in External, d \in Donor, c \in Cents, s \in Shipping : Donate(x, d, c, s)
BuyStep == \E d \in Donor, i \in Item, c \in Amount, n \in Nat, x \in Int : Buys(d, i, c, n, x)
GiveStep == \E R \in SUBSET Row, i \in Item, x \in Int : Gives(R, i, x)

LEMMA ItemsDiffer ==
    /\ "reward" \in Item /\ "goal" \in Item /\ "reward" \notin Option /\ "goal" \notin Option
    /\ Option \subseteq Item /\ Custom \subseteq Option
    /\ \A i \in Item : i \in Option \/ i = "reward" \/ i = "goal"
  BY ConstantsAssumption DEF Item, Option

LEMMA Untouched ==
    ASSUME TypeOK, UNCHANGED spends
    PROVE  Returned({})
<1>1. \A k \in Row : spends[k].refunds \in Nat
  BY RowIs DEF TypeOK
<1> QED
  BY <1>1 DEF Returned, Row, TypeOK

\* No row is given back, and no tally moves.
LEMMA QuietGives ==
    ASSUME TypeOK, Returned({}), Alike, DonationsKept, UNCHANGED <<tally, total>>
    PROVE  GiveStep
<1>1. TallyMoves("goal", -0)
  BY DEF TallyMoves, TypeOK
<1>2. Gives({}, "goal", 0)
  BY <1>1, TotalEmpty DEF Gives
<1> QED
  BY <1>2, ItemsDiffer DEF GiveStep

LEMMA DonationsStay == UNCHANGED donations => DonationsKept
  BY DEF DonationsKept

LEMMA BalancesStay == TypeOK /\ UNCHANGED <<balance, adjusted>> => Alike
  BY DEF Alike, TypeOK

LEMMA ClaimIs ==
    ASSUME TypeOK, NEW d \in Donor, NEW n \in 1..Stock, Claim(d, n)
    PROVE  TypeOK' /\ BuyStep
<1>1. n \in Nat /\ price \in Amount /\ "reward" \in Item
  BY ConstantsAssumption, ItemsDiffer DEF TypeOK, Amount
<1>2. /\ Spends(d, "reward", price, n)
      /\ tally' = [tally EXCEPT !["reward"] = @ + n]
      /\ UNCHANGED <<donations, adjusted, price, complete, total, option, entry, rest>>
  BY DEF Claim, Units, poll
<1>3. Bought(d, "reward", price, n)
  BY <1>1, <1>2, SpendsBuys
<1>4. WalletType' /\ RequestType'
  BY <1>1, <1>2, BoughtType
<1>5. TallyMoves("reward", n)
  BY <1>1, <1>2, ItemsDiffer DEF TallyMoves, TypeOK
<1>6. RestType'
  <2>1. tally' \in [Item -> Int]
    BY <1>1, <1>2 DEF TypeOK
  <2> QED
    BY <1>2, <2>1, TypeParts DEF RestType
<1>7. Buys(d, "reward", price, n, n)
  BY <1>2, <1>3, <1>5 DEF Buys
<1> QED
  BY <1>1, <1>4, <1>6, <1>7, TypePartsNext DEF BuyStep

LEMMA VoteIs ==
    ASSUME TypeOK, NEW d \in Donor, NEW o \in Option, NEW c \in Cents, Vote(d, o, c)
    PROVE  TypeOK' /\ BuyStep
<1>1. c \in Amount /\ o \in Item /\ c \in Nat /\ 1 \in Nat
  BY AmountsAreNumbers, ItemsDiffer DEF Amount
<1>2. /\ Spends(d, o, c, 1)
      /\ tally' = [tally EXCEPT ![o] = @ + c] /\ total' = total + c
      /\ UNCHANGED <<donations, adjusted, price, complete, option, entry, rest>>
  BY DEF Vote
<1>3. Bought(d, o, c, 1)
  BY <1>1, <1>2, SpendsBuys
<1>4. WalletType' /\ RequestType'
  BY <1>1, <1>2, BoughtType
<1>5. TallyMoves(o, c)
  BY <1>1, <1>2 DEF TallyMoves, TypeOK
<1>6. RestType'
  <2>1. tally' \in [Item -> Int] /\ total' \in Int
    BY <1>1, <1>2 DEF TypeOK
  <2> QED
    BY <1>2, <2>1, TypeParts DEF RestType
<1>7. Buys(d, o, c, 1, c)
  BY <1>2, <1>3, <1>5, ItemsDiffer DEF Buys
<1> QED
  BY <1>1, <1>4, <1>6, <1>7, TypePartsNext DEF BuyStep

LEMMA ProposeIs ==
    ASSUME TypeOK, OptionInv, NEW d \in Donor, NEW o \in Custom, NEW c \in Cents,
           NEW auto \in BOOLEAN, Propose(d, o, c, auto)
    PROVE  TypeOK' /\ BuyStep
<1>1. c \in Amount /\ o \in Item /\ o \in Option /\ c \in Nat /\ 1 \in Nat
  BY AmountsAreNumbers, ItemsDiffer DEF Amount
<1>2. tally[o] = 0
  BY <1>1 DEF OptionInv, Propose
<1>3. PICK x \in Nat : x = IF auto THEN c ELSE 0
  BY <1>1
<1>4. /\ Spends(d, o, c, 1)
      /\ tally' = [tally EXCEPT ![o] = x]
      /\ UNCHANGED <<donations, adjusted, price, complete, rest>>
  BY <1>3 DEF Propose, FirstVotes
<1>5. total' = total + x
  BY <1>1, <1>3 DEF Propose, TypeOK
<1>6. Bought(d, o, c, 1)
  BY <1>1, <1>4, SpendsBuys
<1>7. WalletType' /\ RequestType'
  BY <1>1, <1>4, BoughtType
<1>8. TallyMoves(o, x)
  <2>1. tally' = [tally EXCEPT ![o] = @ + x]
    BY <1>2, <1>3, <1>4
  <2> QED
    BY <1>1, <1>5, <2>1 DEF TallyMoves, TypeOK
<1>9. RestType'
  <2>1. tally' \in [Item -> Int] /\ total' \in Int
    BY <1>1, <1>4, <1>5 DEF TypeOK
  <2>2. option' \in [Option -> OptionStatus]
    <3>1. option' = [option EXCEPT ![o] = IF auto THEN "ACTIVE" ELSE "PENDING_APPROVAL"]
      BY DEF Propose
    <3>2. option \in [Option -> OptionStatus]
      BY DEF TypeOK, OptionStatus
    <3>3. (IF auto THEN "ACTIVE" ELSE "PENDING_APPROVAL") \in OptionStatus
      BY DEF OptionStatus
    <3> QED
      BY <3>1, <3>2, <3>3
  <2>3. entry' \in [Custom -> EntryStatuses]
    <3>1. entry' = [entry EXCEPT ![o] = EntryStatus(auto)]
      BY DEF Propose
    <3>2. EntryStatus(auto) \in EntryStatuses
      BY DEF EntryStatus, EntryStatuses
    <3>3. entry \in [Custom -> EntryStatuses]
      BY DEF TypeOK, EntryStatuses
    <3> QED
      BY <3>1, <3>2, <3>3
  <2> QED
    BY <1>4, <2>1, <2>2, <2>3, TypeParts DEF RestType
<1>10. Buys(d, o, c, 1, x)
  BY <1>1, <1>4, <1>6, <1>8, ItemsDiffer DEF Buys
<1> QED
  BY <1>1, <1>7, <1>9, <1>10, TypePartsNext DEF BuyStep

LEMMA ContributeIs ==
    ASSUME TypeOK, NEW d \in Donor, NEW c \in Cents, Contribute(d, c)
    PROVE  TypeOK' /\ BuyStep
<1>1. c \in Amount /\ "goal" \in Item /\ c \in Nat /\ 1 \in Nat
  BY AmountsAreNumbers, ItemsDiffer DEF Amount
<1>2. /\ Spends(d, "goal", c, 1)
      /\ tally' = [tally EXCEPT !["goal"] = @ + c] /\ complete' = (tally["goal"] + c >= Target)
      /\ UNCHANGED <<donations, adjusted, price, total, option, entry, rest>>
  BY DEF Contribute, poll
<1>3. Bought(d, "goal", c, 1)
  BY <1>1, <1>2, SpendsBuys
<1>4. WalletType' /\ RequestType'
  BY <1>1, <1>2, BoughtType
<1>5. TallyMoves("goal", c)
  BY <1>1, <1>2, ItemsDiffer DEF TallyMoves, TypeOK
<1>6. RestType'
  <2>1. tally' \in [Item -> Int] /\ complete' \in BOOLEAN
    BY <1>1, <1>2 DEF TypeOK
  <2> QED
    BY <1>2, <2>1, TypeParts DEF RestType
<1>7. Buys(d, "goal", c, 1, c)
  BY <1>1, <1>2, <1>3, <1>5 DEF Buys
<1> QED
  BY <1>1, <1>4, <1>6, <1>7, TypePartsNext DEF BuyStep

LEMMA SetStatusIs ==
    ASSUME TypeOK, NEW x \in DOMAIN donations,
           NEW st \in {"PENDING", "COMPLETED", "REFUNDED", "CHARGEBACK"}, SetStatus(x, st)
    PROVE  TypeOK' /\ GiveStep
<1>1. TypeOK' /\ Alike /\ DonationsKept
  BY StatusChanges DEF DonationsKept
<1>2. UNCHANGED <<spends, tally, total>>
  BY DEF SetStatus, poll
<1> QED
  BY <1>1, <1>2, Untouched, QuietGives

LEMMA RepriceIs ==
    ASSUME TypeOK, NEW c \in Prices, Reprice(c)
    PROVE  TypeOK' /\ GiveStep
<1>1. UNCHANGED <<balance, donations, spends, adjusted, tally, complete,
                  total, option, entry, rest>> /\ price' = c
  BY DEF Reprice, poll
<1>2. RequestType'
  BY <1>1, RequestTypeKept DEF Row
<1>3. WalletType' /\ RestType'
  BY <1>1, TypeParts DEF WalletType, RestType
<1> QED
  BY <1>1, <1>2, <1>3, TypePartsNext, DonationsStay, BalancesStay, Untouched, QuietGives

LEMMA SetClaimIs ==
    ASSUME TypeOK, NEW k \in Row, NEW st \in {"PENDING", "FULFILLED"}, SetClaim(k, st)
    PROVE  TypeOK' /\ GiveStep
<1>1. /\ UNCHANGED <<balance, donations, adjusted, price, tally, complete,
                     total, option, entry, rest>>
      /\ spends' = [spends EXCEPT ![k] = [@ EXCEPT !.status = st]]
  BY DEF SetClaim, poll
<1>2. spends \in Seq(Spend) /\ Row = 1..Len(spends) /\ spends[k] \in Spend
  BY RowsAreASequence DEF TypeOK
<1>3. PICK y \in Spend : y = [spends[k] EXCEPT !.status = st]
  BY <1>2 DEF Spend
<1>4. /\ y.donor = spends[k].donor /\ y.item = spends[k].item
      /\ y.cents = spends[k].cents /\ y.refunds = spends[k].refunds
  BY <1>2, <1>3 DEF Spend
<1>5. spends' = [spends EXCEPT ![k] = y]
  BY <1>1, <1>3
<1>6. /\ spends' \in Seq(Spend) /\ Len(spends') = Len(spends)
      /\ \A j \in 1..Len(spends) : spends[j]' = IF j = k THEN y ELSE spends[j]
  BY <1>2, <1>5, ExceptSeq
<1>7. Row' = Row
  <2>1. DOMAIN spends' = DOMAIN spends
    BY <1>5
  <2> QED
    BY <2>1 DEF Row
<1>8. Returned({})
  <2>1. \A j \in Row : spends[j].refunds \in Nat
    BY <1>2, RowIs
  <2>2. \A j \in Row : /\ spends[j].donor' = spends[j].donor
                       /\ spends[j].item' = spends[j].item
                       /\ spends[j].cents' = spends[j].cents
                       /\ spends[j].refunds' = spends[j].refunds
    BY <1>2, <1>4, <1>6
  <2> QED
    BY <1>6, <1>7, <2>1, <2>2 DEF Returned
<1>9. RequestType'
  BY <1>1, <1>7, RequestTypeKept
<1>10. WalletType' /\ RestType'
  BY <1>1, <1>6, TypeParts DEF WalletType, RestType
<1> QED
  BY <1>1, <1>8, <1>9, <1>10, TypePartsNext, DonationsStay, BalancesStay, QuietGives

\* The rows of one option, or of the goal, at what they cost.
LEMMA PaidRows ==
    ASSUME TypeOK, NEW R \in SUBSET Row
    PROVE  /\ \A k \in Row : Paid[k] \in Int
           /\ SumOf(R, Paid) \in Int
           /\ (\A k \in R : spends[k].item = "goal") => SumOf(R, Paid) = Total(R, Each)
<1>1. spends \in Seq(Spend) /\ IsFiniteSet(R)
  BY RowsAreASequence, FS_Subset DEF TypeOK
<1>2. \A k \in Row : Paid[k] \in Int /\ Paid[k] = spends[k].cents
  BY <1>1, RowIs
<1>3. SumOf(R, Paid) \in Int
  BY <1>1, <1>2, SumOfRowsType
<1>4. ASSUME \A k \in R : spends[k].item = "goal"
      PROVE  SumOf(R, Paid) = Total(R, Each)
  <2>1. \A k \in R : Paid[k] = Each[k]
    BY <1>2, <1>4 DEF Each
  <2>2. Total(R, Paid) = Total(R, Each)
    BY <1>1, <2>1, TotalSame
  <2> QED
    BY <2>2, SumIs
<1> QED
  BY <1>2, <1>3, <1>4

LEMMA LiveRows ==
    ASSUME NEW i
    PROVE  LiveOn(i) \in SUBSET Row /\ \A k \in LiveOn(i) : spends[k].item = i
  BY DEF LiveOn

LEMMA RefundOptionIs ==
    ASSUME TypeOK, NEW o \in Option, NEW removed \in BOOLEAN, RefundOption(o, removed)
    PROVE  TypeOK' /\ GiveStep
<1>1. PICK R \in SUBSET Row : R = LiveOn(o) /\ \A k \in R : spends[k].item = o
  BY LiveRows
<1>2. PICK x \in Int : x = IF option[o] = "ACTIVE" THEN SumOf(R, Paid) ELSE 0
  BY PaidRows
<1>3. /\ GiveBack(R, Paid)
      /\ tally' = [tally EXCEPT ![o] = @ - x] /\ total' = total - x
      /\ option' = IF removed THEN [option EXCEPT ![o] = "REJECTED"] ELSE option
      /\ UNCHANGED <<donations, price, complete, entry, rest>>
  BY <1>1, <1>2 DEF RefundOption
<1>4. Returned(R) /\ Alike /\ WalletType' /\ Row' = Row
  BY <1>3, PaidRows, GiveBackReturns, ReturnedType
<1>5. RequestType'
  BY <1>3, <1>4, RequestTypeKept
<1>6. tally' \in [Item -> Int] /\ total' \in Int
  BY <1>3, ItemsDiffer DEF TypeOK
<1>7. option' \in [Option -> OptionStatus]
  BY <1>3 DEF TypeOK, OptionStatus
<1>8. RestType'
  BY <1>3, <1>6, <1>7, TypeParts DEF RestType
<1>9. TallyMoves(o, -x)
  BY <1>3, ItemsDiffer DEF TallyMoves, TypeOK
<1>10. Gives(R, o, x)
  BY <1>1, <1>3, <1>4, <1>9, DonationsStay, ItemsDiffer DEF Gives
<1> QED
  BY <1>4, <1>5, <1>8, <1>10, TypePartsNext, ItemsDiffer DEF GiveStep

LEMMA RefundGoalIs ==
    ASSUME TypeOK, RefundGoal
    PROVE  TypeOK' /\ GiveStep
<1>1. PICK R \in SUBSET Row : R = LiveOn("goal") /\ \A k \in R : spends[k].item = "goal"
  BY LiveRows
<1>2. PICK x \in Int : x = SumOf(R, Paid) /\ x = Total(R, Each)
  BY <1>1, PaidRows
<1>3. /\ GiveBack(R, Paid)
      /\ tally' = [tally EXCEPT !["goal"] = tally["goal"] - x]
      /\ complete' = (tally["goal"] - x >= Target)
      /\ UNCHANGED <<donations, price, total, option, entry, rest>>
  BY <1>1, <1>2 DEF RefundGoal, poll
<1>4. Returned(R) /\ Alike /\ WalletType' /\ Row' = Row
  BY <1>3, PaidRows, GiveBackReturns, ReturnedType
<1>5. RequestType'
  BY <1>3, <1>4, RequestTypeKept
<1>6. tally' \in [Item -> Int] /\ complete' \in BOOLEAN
  BY <1>3, ItemsDiffer DEF TypeOK
<1>7. RestType'
  BY <1>3, <1>6, TypeParts DEF RestType
<1>8. TallyMoves("goal", -x)
  BY <1>3, ItemsDiffer DEF TallyMoves, TypeOK
<1>9. Gives(R, "goal", x)
  BY <1>1, <1>2, <1>3, <1>4, <1>8, DonationsStay DEF Gives
<1> QED
  BY <1>4, <1>5, <1>7, <1>9, TypePartsNext, ItemsDiffer DEF GiveStep

-----------------------------------------------------------------------------
(* The requests.                                                           *)

\* A request that only reads moves no money.
LEMMA StartsIs ==
    ASSUME TypeOK, NEW r \in Staff, NEW q \in Request, Starts(r, q)
    PROVE  TypeOK' /\ GiveStep
<1>1. TypeOK'
  BY StartsType
<1>2. UNCHANGED <<balance, donations, spends, adjusted, tally, total>>
  BY DEF Starts
<1> QED
  BY <1>1, <1>2, DonationsStay, BalancesStay, Untouched, QuietGives

LEMMA AdjustReadIs ==
    ASSUME TypeOK, NEW r \in Staff, NEW d \in Donor, NEW c \in Adjustments, AdjustRead(r, d, c)
    PROVE  TypeOK' /\ GiveStep
<1>1. [op |-> "adjust", donor |-> d, cents |-> c, ready |-> TRUE] \in Request
  BY DEF Request
<1> QED
  BY <1>1, StartsIs DEF AdjustRead

LEMMA AdjustWriteIs ==
    ASSUME TypeOK, NEW r \in Staff, AdjustWrite(r)
    PROVE  TypeOK' /\ GiveStep
<1>1. PICK d \in Donor, c \in Int : d = request[r].donor /\ c = request[r].cents
  BY RequestIs DEF AdjustWrite, Ends, IsAdjust
<1>2. /\ balance' = [balance EXCEPT ![d] = @ + c] /\ adjusted' = [adjusted EXCEPT ![d] = @ + c]
      /\ UNCHANGED <<donations, spends, price, tally, total, complete, option, entry>>
      /\ Ends(r, "adjust")
  BY <1>1 DEF AdjustWrite, poll
<1>3. Alike
  BY <1>2 DEF Alike, TypeOK
<1>4. RequestType'
  BY <1>2, EndsType DEF Row
<1>5. WalletType' /\ RestType'
  BY <1>2, <1>3, TypeParts DEF WalletType, RestType, Alike
<1> QED
  BY <1>2, <1>3, <1>4, <1>5, TypePartsNext, DonationsStay, Untouched, QuietGives

LEMMA SweepReadIs ==
    ASSUME TypeOK, NEW r \in Staff, SweepRead(r)
    PROVE  TypeOK' /\ GiveStep
<1>1. PICK swept \in SUBSET {d \in Donor : balance[d] > 0} :
         Starts(r, [op |-> "sweep", ready |-> TRUE,
                    took |-> [d \in Donor |-> IF d \in swept THEN balance[d] ELSE 0]])
  BY DEF SweepRead
<1>2. PICK took : took = [d \in Donor |-> IF d \in swept THEN balance[d] ELSE 0]
  OBVIOUS
<1>3. took \in [Donor -> Nat]
  BY <1>2 DEF TypeOK
<1>4. [op |-> "sweep", ready |-> TRUE, took |-> took] \in Request
  BY <1>3 DEF Request
<1> QED
  BY <1>1, <1>2, <1>4, StartsIs

LEMMA SweepWriteIs ==
    ASSUME TypeOK, NEW r \in Staff, SweepWrite(r)
    PROVE  TypeOK' /\ GiveStep
<1>1. PICK took \in [Donor -> Nat] : took = request[r].took
  BY RequestIs DEF SweepWrite, Ends, IsSweep
<1>2. /\ balance' = [d \in Donor |-> balance[d] - took[d]]
      /\ adjusted' = [d \in Donor |-> adjusted[d] - took[d]]
      /\ UNCHANGED <<donations, spends, price, tally, total, complete, option, entry>>
      /\ Ends(r, "sweep")
  BY <1>1 DEF SweepWrite, Left, poll
<1>3. Alike
  BY <1>2 DEF Alike, TypeOK
<1>4. RequestType'
  BY <1>2, EndsType DEF Row
<1>5. WalletType' /\ RestType'
  BY <1>2, <1>3, TypeParts DEF WalletType, RestType, Alike
<1> QED
  BY <1>2, <1>3, <1>4, <1>5, TypePartsNext, DonationsStay, Untouched, QuietGives

LEMMA ReverseReadIs ==
    ASSUME TypeOK, NEW r \in Staff, NEW k \in Row, ReverseRead(r, k)
    PROVE  TypeOK' /\ GiveStep
<1>1. PICK b \in BOOLEAN : b = (spends[k].item = "reward")
  OBVIOUS
<1>2. PICK c \in Amount : c = IF spends[k].item = "reward" THEN price ELSE spends[k].cents
  BY RowIs DEF TypeOK, Amount
<1>3. Starts(r, [op |-> "reverse", row |-> k, ready |-> b, flag |-> FALSE, cents |-> c])
  BY <1>1, <1>2 DEF ReverseRead
<1>4. [op |-> "reverse", row |-> k, ready |-> b, flag |-> FALSE, cents |-> c] \in Request
  BY DEF Request, Amount
<1> QED
  BY <1>3, <1>4, StartsIs

LEMMA ModerateReadIs ==
    ASSUME TypeOK, NEW r \in Staff, NEW o \in Custom, NEW v \in {"APPROVED", "REJECTED"},
           ModerateRead(r, o, v)
    PROVE  TypeOK' /\ GiveStep
<1>1. [op |-> "moderate", option |-> o, verdict |-> v, row |-> 0, ready |-> FALSE] \in Request
  BY DEF Request
<1> QED
  BY <1>1, StartsIs DEF ModerateRead

\* A step in which a request only reads: it changes that request alone.
Reads(r) ==
    /\ UNCHANGED <<balance, donations, spends, adjusted, price, tally, total, complete,
                   option, entry, requests>>
    /\ \E q \in Request : request' = [request EXCEPT ![r] = q]

LEMMA ReadsIs ==
    ASSUME TypeOK, NEW r \in Staff, Reads(r)
    PROVE  TypeOK' /\ GiveStep
<1>1. UNCHANGED <<balance, donations, spends, adjusted, price, tally, total, complete,
                   option, entry, requests>>
  BY DEF Reads
<1>2. RequestType'
  <2>1. Request' = Request
    BY <1>1 DEF Request, Row
  <2>2. request' \in [Staff -> Request]
    BY DEF Reads, TypeOK
  <2> QED
    BY <1>1, <2>1, <2>2 DEF RequestType, TypeOK
<1>3. WalletType' /\ RestType'
  BY <1>1, TypeParts DEF WalletType, RestType
<1> QED
  BY <1>1, <1>2, <1>3, TypePartsNext, DonationsStay, BalancesStay, Untouched, QuietGives

\* The second read of a reversal changes two fields of the request.
LEMMA SeenRequest ==
    ASSUME NEW q \in [op : {"reverse"}, row : Row, cents : Cents \cup Prices,
                      ready : BOOLEAN, flag : BOOLEAN],
           NEW b \in BOOLEAN
    PROVE  LET s == [q EXCEPT !.ready = TRUE, !.flag = b]
           IN  s \in Request /\ s.op = "reverse" /\ s.row = q.row /\ s.cents = q.cents
<1> DEFINE s == [q EXCEPT !.ready = TRUE, !.flag = b]
<1>1. /\ s \in [op : {"reverse"}, row : Row, cents : Cents \cup Prices,
                ready : BOOLEAN, flag : BOOLEAN]
      /\ s.op = "reverse" /\ s.row = q.row /\ s.cents = q.cents
  OBVIOUS
<1> QED
  BY <1>1 DEF Request

LEMMA ReverseRequest ==
    ASSUME TypeOK, NEW r \in Staff, request[r].op = "reverse"
    PROVE  request[r] \in [op : {"reverse"}, row : Row, cents : Cents \cup Prices,
                           ready : BOOLEAN, flag : BOOLEAN]
<1>1. PICK q \in Request : q = request[r]
  BY DEF TypeOK
<1>2. q.op = "reverse"
  BY <1>1
<1>3. CASE q \in [op : {"adjust"}, donor : Donor, cents : Adjustments, ready : {TRUE}]
  BY <1>2, <1>3
<1>4. CASE q \in [op : {"sweep"}, took : [Donor -> Nat], ready : {TRUE}]
  BY <1>2, <1>4
<1>5. CASE q \in [op : {"moderate"}, option : Custom, verdict : {"APPROVED", "REJECTED"},
                  row : Row, ready : {TRUE}]
  BY <1>2, <1>5
<1>6. CASE q \in [op : {"moderate"}, option : Custom, verdict : {"APPROVED", "REJECTED"},
                  row : {0}, ready : {FALSE}]
  BY <1>2, <1>6
<1>7. CASE q = Idle
  BY <1>2, <1>7 DEF Idle
<1> QED
  BY <1>1, <1>3, <1>4, <1>5, <1>6, <1>7 DEF Request

\* What the second read of a reversal leaves behind.
LEMMA SeenIs ==
    ASSUME NEW r \in Staff, ReverseSeen(r)
    PROVE  \E b \in BOOLEAN :
              request' = [request EXCEPT ![r] = [@ EXCEPT !.ready = TRUE, !.flag = b]]
<1> DEFINE low == tally["goal"] - spends[request[r].row].cents <= 0
           active == option[spends[request[r].row].item] = "ACTIVE"
<1>1. PICK k : k = request[r].row
  OBVIOUS
<1>2. PICK b \in BOOLEAN : b = IF spends[k].item = "goal" THEN low ELSE active
  <2>1. low \in BOOLEAN /\ active \in BOOLEAN
    OBVIOUS
  <2> HIDE DEF low, active
  <2> QED
    BY <2>1
<1>3. request' = [request EXCEPT ![r].ready = TRUE, ![r].flag = b]
  BY <1>1, <1>2 DEF ReverseSeen
<1> QED
  BY <1>3

LEMMA ReverseSeenIs ==
    ASSUME TypeOK, NEW r \in Staff, ReverseSeen(r)
    PROVE  TypeOK' /\ GiveStep
<1>1. request[r].op = "reverse"
  BY DEF ReverseSeen, Waits
<1>2. PICK b \in BOOLEAN :
         request' = [request EXCEPT ![r] = [@ EXCEPT !.ready = TRUE, !.flag = b]]
  BY SeenIs
<1>3. [request[r] EXCEPT !.ready = TRUE, !.flag = b] \in Request
  BY <1>1, ReverseRequest, SeenRequest
<1>4. Reads(r)
  BY <1>2, <1>3 DEF Reads, ReverseSeen
<1> QED
  BY <1>4, ReadsIs

LEMMA LatestIs ==
    ASSUME TypeOK, NEW V \in SUBSET Row, V # {}
    PROVE  Max(V) \in V
<1>1. Len(spends) \in Nat /\ Row = 1..Len(spends)
  BY RowsAreASequence DEF TypeOK
<1> DEFINE T == {Len(spends) - k : k \in V}
<1>2. T \subseteq Nat /\ T # {}
  <2>1. ASSUME NEW k \in V PROVE Len(spends) - k \in Nat
    <3>1. k \in 1..Len(spends)
      BY <1>1
    <3> QED
      BY <1>1, <3>1
  <2> QED
    BY <2>1
<1>3. PICK t \in T : \A u \in T : t <= u
  <2> HIDE DEF T
  <2> QED
    BY <1>2, LeastNat
<1>4. PICK m \in V : t = Len(spends) - m
  BY <1>3
<1>5. ASSUME NEW k \in V PROVE m >= k
  <2>1. t <= Len(spends) - k
    BY <1>3
  <2>2. m \in Nat /\ k \in Nat
    BY <1>1
  <2> QED
    BY <1>1, <1>4, <2>1, <2>2
<1> QED
  BY <1>5 DEF Max

LEMMA FoundRequest ==
    ASSUME TypeOK, NEW r \in Staff, request[r].op = "moderate", ~request[r].ready,
           NEW k \in Row
    PROVE  LET q == [request[r] EXCEPT !.row = k, !.ready = TRUE]
           IN  q \in Request /\ q.op = "moderate" /\ q.row = k /\ q.option = request[r].option
<1>1. PICK q \in Request : q = request[r]
  BY DEF TypeOK
<1>2. q.op = "moderate" /\ ~q.ready
  BY <1>1
<1>3. q \in [op : {"moderate"}, option : Custom, verdict : {"APPROVED", "REJECTED"},
             row : {0}, ready : {FALSE}]
  <2>1. CASE q \in [op : {"adjust"}, donor : Donor, cents : Adjustments, ready : {TRUE}]
    BY <1>2, <2>1
  <2>2. CASE q \in [op : {"sweep"}, took : [Donor -> Nat], ready : {TRUE}]
    BY <1>2, <2>2
  <2>3. CASE q \in [op : {"moderate"}, option : Custom, verdict : {"APPROVED", "REJECTED"},
                    row : Row, ready : {TRUE}]
    BY <1>2, <2>3
  <2>4. CASE q \in [op : {"reverse"}, row : Row, cents : Cents \cup Prices,
                    ready : BOOLEAN, flag : BOOLEAN]
    BY <1>2, <2>4
  <2>5. CASE q = Idle
    BY <1>2, <2>5 DEF Idle
  <2> QED
    BY <2>1, <2>2, <2>3, <2>4, <2>5 DEF Request
<1> DEFINE s == [q EXCEPT !.row = k, !.ready = TRUE]
<1>4. /\ s \in [op : {"moderate"}, option : Custom, verdict : {"APPROVED", "REJECTED"},
                row : Row, ready : {TRUE}]
      /\ s.op = "moderate" /\ s.row = k /\ s.option = q.option
  BY <1>3
<1> QED
  BY <1>1, <1>4 DEF Request

LEMMA FindVoteIs ==
    ASSUME TypeOK, NEW r \in Staff, FindVote(r)
    PROVE  TypeOK' /\ GiveStep
<1>1. request[r].op = "moderate" /\ ~request[r].ready
  BY DEF FindVote, Waits
<1>2. PICK V \in SUBSET Row : V = LiveOn(request[r].option)
  BY LiveRows
<1>3. CASE V = {}
  <2>1. request' = [request EXCEPT ![r] = Idle]
    BY <1>2, <1>3 DEF FindVote
  <2>2. Idle \in Request
    BY DEF Request
  <2>3. Reads(r)
    BY <2>1, <2>2 DEF Reads, FindVote
  <2> QED
    BY <2>3, ReadsIs
<1>4. CASE V # {}
  <2>1. PICK k \in Row : k = Max(V)
    BY <1>4, LatestIs
  <2>2. request' = [request EXCEPT ![r].row = k, ![r].ready = TRUE]
    BY <1>2, <1>4, <2>1 DEF FindVote
  <2>3. [request[r] EXCEPT !.row = k, !.ready = TRUE] \in Request
    BY <1>1, FoundRequest
  <2>4. request' = [request EXCEPT ![r] = [request[r] EXCEPT !.row = k, !.ready = TRUE]]
    BY <2>2
  <2>5. Reads(r)
    BY <2>3, <2>4 DEF Reads, FindVote
  <2> QED
    BY <2>5, ReadsIs
<1> QED
  BY <1>3, <1>4

\* What a reversal gives back: one row, at the amount the request has read.
LEMMA ReverseIs ==
    ASSUME TypeOK, NEW r \in Staff, NEW items, Reverse(r, items), UNCHANGED donations
    PROVE  /\ request[r].cents \in Int
           /\ \E k \in Row : /\ k = request[r].row /\ spends[k].item \in items
                             /\ Returned({k}) /\ Alike /\ WalletType' /\ RequestType'
<1>1. request[r].op = "reverse" /\ Ends(r, "reverse")
  BY DEF Reverse, Ends
<1>2. PICK k \in Row, c \in Nat : k = request[r].row /\ c = request[r].cents
  BY <1>1, RequestIs, AmountsAreNumbers DEF IsReverse
<1> DEFINE w == [j \in Row |-> c]
<1>3. GiveBack({k}, w)
  BY <1>2 DEF Reverse
<1>4. \A j \in Row : w[j] \in Int
  OBVIOUS
<1> HIDE DEF w
<1>5. Returned({k}) /\ Alike /\ WalletType' /\ Row' = Row
  BY <1>3, <1>4, GiveBackReturns, ReturnedType
<1>6. RequestType'
  BY <1>1, <1>5, EndsType
<1>7. spends[k].item \in items
  BY <1>2 DEF Reverse
<1>8. request[r].cents \in Int
  BY <1>2
<1>9. \E j \in Row : /\ j = request[r].row /\ spends[j].item \in items
                     /\ Returned({j}) /\ Alike /\ WalletType' /\ RequestType'
  BY <1>2, <1>5, <1>6, <1>7
<1> QED
  BY <1>8, <1>9

LEMMA ReverseClaimIs ==
    ASSUME TypeOK, NEW r \in Staff, ReverseClaim(r)
    PROVE  TypeOK' /\ GiveStep
<1>1. /\ Reverse(r, {"reward"}) /\ tally' = [tally EXCEPT !["reward"] = @ - 1]
      /\ UNCHANGED <<donations, price, complete, total, option, entry>>
  BY DEF ReverseClaim, poll
<1>2. PICK k \in Row : /\ k = request[r].row /\ spends[k].item = "reward"
                       /\ Returned({k}) /\ Alike /\ WalletType' /\ RequestType'
  BY <1>1, ReverseIs
<1>3. Total({k}, Each) = 1
  <2>1. Each[k] = 1
    BY <1>2 DEF Each
  <2> QED
    BY <2>1, TotalSingle
<1>4. TallyMoves("reward", -1)
  BY <1>1, ItemsDiffer DEF TallyMoves, TypeOK
<1>5. Gives({k}, "reward", 1)
  BY <1>1, <1>2, <1>3, <1>4, DonationsStay DEF Gives
<1>6. RestType'
  <2>1. tally' \in [Item -> Int]
    BY <1>1, ItemsDiffer DEF TypeOK
  <2> QED
    BY <1>1, <2>1, TypeParts DEF RestType
<1> QED
  BY <1>2, <1>5, <1>6, TypePartsNext, ItemsDiffer DEF GiveStep

LEMMA ReverseVoteIs ==
    ASSUME TypeOK, NEW r \in Staff, ReverseVote(r)
    PROVE  TypeOK' /\ GiveStep
<1>1. Reverse(r, Option) /\ UNCHANGED <<donations, price, complete, entry>>
  BY DEF ReverseVote
<1>2. PICK k \in Row : /\ k = request[r].row /\ spends[k].item \in Option
                       /\ Returned({k}) /\ Alike /\ WalletType' /\ RequestType'
  BY <1>1, ReverseIs
<1>3. PICK o \in Option : o = spends[k].item
  BY <1>2
<1>4. PICK c \in Int : c = request[r].cents
  BY <1>1, ReverseIs
<1>5. PICK x \in Int : x = IF request[r].flag THEN c ELSE 0
  OBVIOUS
<1>6. /\ tally' = IF request[r].flag THEN [tally EXCEPT ![o] = @ - c] ELSE tally
      /\ total' = IF request[r].flag THEN total - c ELSE total
      /\ option' = IF request[r].flag THEN option ELSE [option EXCEPT ![o] = "REJECTED"]
  BY <1>2, <1>3, <1>4 DEF ReverseVote
<1>7. TallyMoves(o, -x)
  BY <1>5, <1>6, ItemsDiffer DEF TallyMoves, TypeOK
<1>8. Gives({k}, o, x)
  BY <1>1, <1>2, <1>3, <1>7, DonationsStay, ItemsDiffer DEF Gives
<1>9. RestType'
  <2>1. tally' \in [Item -> Int] /\ total' \in Int
    BY <1>6, ItemsDiffer DEF TypeOK
  <2>2. option' \in [Option -> OptionStatus]
    BY <1>6 DEF TypeOK, OptionStatus
  <2> QED
    BY <1>1, <2>1, <2>2, TypeParts DEF RestType
<1> QED
  BY <1>2, <1>8, <1>9, TypePartsNext, ItemsDiffer DEF GiveStep

LEMMA ReverseContributionIs ==
    ASSUME TypeOK, RequestInv, NEW r \in Staff, ReverseContribution(r)
    PROVE  TypeOK' /\ GiveStep
<1>1. Reverse(r, {"goal"}) /\ UNCHANGED <<donations, price, total, option, entry>>
  BY DEF ReverseContribution, poll
<1>2. PICK k \in Row : /\ k = request[r].row /\ spends[k].item = "goal"
                       /\ Returned({k}) /\ Alike /\ WalletType' /\ RequestType'
  <2>1. \E k \in Row : /\ k = request[r].row /\ spends[k].item \in {"goal"}
                       /\ Returned({k}) /\ Alike /\ WalletType' /\ RequestType'
    BY <1>1, ReverseIs
  <2> QED
    BY <2>1
<1>3. PICK c \in Int : c = request[r].cents
  BY <1>1, ReverseIs
<1>4. c = spends[k].cents
  BY <1>1, <1>2, <1>3 DEF RequestInv, Reverse, Ends
<1>5. Total({k}, Each) = c
  <2>1. Each[k] = c
    BY <1>2, <1>4 DEF Each
  <2> QED
    BY <2>1, TotalSingle
<1>6. tally' = [tally EXCEPT !["goal"] = @ - c] /\ complete' \in BOOLEAN
  BY <1>3 DEF ReverseContribution
<1>7. TallyMoves("goal", -c)
  BY <1>1, <1>6, ItemsDiffer DEF TallyMoves, TypeOK
<1>8. Gives({k}, "goal", c)
  BY <1>1, <1>2, <1>5, <1>7, DonationsStay DEF Gives
<1>9. RestType'
  <2>1. tally' \in [Item -> Int]
    BY <1>6, ItemsDiffer DEF TypeOK
  <2> QED
    BY <1>1, <1>6, <2>1, TypeParts DEF RestType
<1> QED
  BY <1>2, <1>8, <1>9, TypePartsNext, ItemsDiffer DEF GiveStep

\* The option and the vote of a request that is ready to moderate.
LEMMA ModerateIs ==
    ASSUME TypeOK, RequestInv, NEW r \in Staff, Ends(r, "moderate")
    PROVE  /\ request[r].option \in Custom /\ request[r].row \in Row
           /\ spends[request[r].row].item = request[r].option
  BY RequestIs DEF Ends, IsModerate, RequestInv

LEMMA ApproveIs ==
    ASSUME TypeOK, RequestInv, NEW r \in Staff, Approve(r)
    PROVE  TypeOK' /\ GiveStep
<1>1. Ends(r, "moderate")
  BY DEF Approve
<1>2. PICK o \in Custom, k \in Row : o = request[r].option /\ k = request[r].row
  BY <1>1, ModerateIs
<1>3. PICK c \in Int : c = Paid[k]
  BY RowIs DEF TypeOK
<1>4. /\ tally' = [tally EXCEPT ![o] = @ + c] /\ total' = total + c
      /\ option' = [option EXCEPT ![o] = "ACTIVE"] /\ entry' = [entry EXCEPT ![o] = "APPROVED"]
      /\ UNCHANGED <<balance, donations, spends, adjusted, price, complete>>
  BY <1>2, <1>3 DEF Approve
<1>5. RequestType'
  BY <1>1, <1>4, EndsType DEF Row
<1>6. RestType'
  <2>1. tally' \in [Item -> Int] /\ total' \in Int
    BY <1>4, ItemsDiffer DEF TypeOK
  <2>2. option' \in [Option -> OptionStatus] /\ entry' \in [Custom -> EntryStatuses]
    BY <1>4 DEF TypeOK, OptionStatus, EntryStatuses
  <2> QED
    BY <1>4, <2>1, <2>2, TypeParts DEF RestType
<1>7. WalletType'
  BY <1>4, TypeParts DEF WalletType
<1>8. TallyMoves(o, -(-c))
  BY <1>4, ItemsDiffer DEF TallyMoves, TypeOK
<1>9. Gives({}, o, -c)
  BY <1>4, <1>8, DonationsStay, BalancesStay, Untouched, ItemsDiffer DEF Gives
<1> QED
  BY <1>5, <1>6, <1>7, <1>9, TypePartsNext, ItemsDiffer DEF GiveStep

LEMMA RefuseIs ==
    ASSUME TypeOK, RequestInv, NEW r \in Staff, Refuse(r)
    PROVE  TypeOK' /\ GiveStep
<1>1. Ends(r, "moderate")
  BY DEF Refuse
<1>2. PICK o \in Custom, k \in Row :
         o = request[r].option /\ k = request[r].row /\ spends[k].item = o
  BY <1>1, ModerateIs
<1>3. /\ GiveBack({k}, Paid)
      /\ option' = [option EXCEPT ![o] = "REJECTED"] /\ entry' = [entry EXCEPT ![o] = "REJECTED"]
      /\ UNCHANGED <<donations, price, tally, total, complete>>
  BY <1>2 DEF Refuse
<1>4. Returned({k}) /\ Alike /\ WalletType' /\ Row' = Row
  <2>1. \A j \in Row : Paid[j] \in Int
    BY PaidRows
  <2>2. {k} \in SUBSET Row
    BY <1>2
  <2> QED
    BY <1>3, <2>1, <2>2, GiveBackReturns, ReturnedType
<1>5. RequestType'
  BY <1>1, <1>4, EndsType
<1>6. RestType'
  <2>1. option' \in [Option -> OptionStatus] /\ entry' \in [Custom -> EntryStatuses]
    BY <1>3 DEF TypeOK, OptionStatus, EntryStatuses
  <2> QED
    BY <1>3, <2>1, TypeParts DEF RestType
<1>7. TallyMoves(o, -0)
  BY <1>3, ItemsDiffer DEF TallyMoves, TypeOK
<1>8. Gives({k}, o, 0)
  BY <1>2, <1>3, <1>4, <1>7, DonationsStay, ItemsDiffer DEF Gives
<1> QED
  BY <1>4, <1>5, <1>6, <1>8, TypePartsNext, ItemsDiffer DEF GiveStep

\* Every step of the system, seen from the ledger.
LEMMA StepKinds ==
    ASSUME TypeOK, OptionInv, RequestInv, [Next]_vars
    PROVE  TypeOK' /\ (DonateStep \/ BuyStep \/ GiveStep)
<1>1. CASE DonorStep
  <2>1. CASE \E x \in External, d \in Donor, c \in Cents, s \in Shipping : Donate(x, d, c, s)
    BY <2>1, DonateAdds DEF DonateStep
  <2>2. CASE \E d \in Donor, n \in 1..Stock : Claim(d, n)
    BY <2>2, ClaimIs
  <2>3. CASE \E d \in Donor, o \in Option, c \in Cents : Vote(d, o, c)
    BY <2>3, VoteIs
  <2>4. CASE \E d \in Donor, o \in Custom, c \in Cents, auto \in BOOLEAN :
                Propose(d, o, c, auto)
    BY <2>4, ProposeIs
  <2>5. CASE \E d \in Donor, c \in Cents : Contribute(d, c)
    BY <2>5, ContributeIs
  <2> QED
    BY <1>1, <2>1, <2>2, <2>3, <2>4, <2>5 DEF DonorStep
<1>2. CASE StaffStep
  BY <1>2, SetStatusIs, RepriceIs, SetClaimIs, RefundOptionIs, RefundGoalIs DEF StaffStep
<1>3. ASSUME NEW r \in Staff, RequestStep(r)
      PROVE  TypeOK' /\ GiveStep
  <2>1. CASE \/ \E d \in Donor, c \in Adjustments : AdjustRead(r, d, c)
             \/ AdjustWrite(r) \/ SweepRead(r) \/ SweepWrite(r)
    BY <2>1, AdjustReadIs, AdjustWriteIs, SweepReadIs, SweepWriteIs
  <2>2. CASE \/ \E k \in Row : ReverseRead(r, k)
             \/ ReverseSeen(r) \/ ReverseClaim(r) \/ ReverseVote(r) \/ ReverseContribution(r)
    BY <2>2, ReverseReadIs, ReverseSeenIs, ReverseClaimIs, ReverseVoteIs, ReverseContributionIs
  <2>3. CASE \/ \E o \in Custom, v \in {"APPROVED", "REJECTED"} : ModerateRead(r, o, v)
             \/ FindVote(r) \/ Approve(r) \/ Refuse(r)
    BY <2>3, ModerateReadIs, FindVoteIs, ApproveIs, RefuseIs
  <2> QED
    BY <1>3, <2>1, <2>2, <2>3 DEF RequestStep
<1>4. CASE UNCHANGED vars
  <2>1. UNCHANGED <<balance, donations, spends, adjusted, price, tally, total, complete,
                    option, entry, request, requests>>
    BY <1>4 DEF vars
  <2>2. TypeOK'
    BY <2>1, RequestTypeKept, TypeParts, TypePartsNext
       DEF WalletType, RestType, Row, rest
  <2> QED
    BY <2>1, <2>2, DonationsStay, BalancesStay, Untouched, QuietGives
<1> QED
  BY <1>1, <1>2, <1>3, <1>4 DEF Next

-----------------------------------------------------------------------------
(* The ledger of a donor.                                                  *)

RowsOf(d) == {k \in Row : spends[k].donor = d}
RowsFor(i) == {k \in Row : spends[k].item = i}
Bundle(n) == (Len(spends) + 1)..(Len(spends) + n)
Net == [x \in DOMAIN donations |-> donations[x].cents - donations[x].shipping]
GiftsOf(d) == {x \in DOMAIN donations : donations[x].donor = d}

LEMMA SpentIs ==
    ASSUME TypeOK, NEW d
    PROVE  /\ Spent(d) = Total(RowsOf(d), Paid) /\ Spent(d) \in Int
           /\ IsFiniteSet(RowsOf(d))
<1>1. Spent(d) = Total(RowsOf(d), Paid)
  BY SumIs DEF Spent, RowsOf
<1>2. RowsOf(d) \in SUBSET Row /\ spends \in Seq(Spend)
  BY DEF RowsOf, TypeOK
<1>3. IsFiniteSet(RowsOf(d))
  BY <1>2, RowsAreASequence, FS_Subset
<1>4. Total(RowsOf(d), Paid) \in Int
  BY <1>2, RowsAreASequence, PaidRows, TotalType
<1> QED
  BY <1>1, <1>3, <1>4

\* A refund leaves what a donor spent: it is an adjustment.
LEMMA ReturnedSpent ==
    ASSUME TypeOK, TypeOK', NEW R, Returned(R), NEW d
    PROVE  Spent(d)' = Spent(d)
<1>1. PICK A, v, w : A = RowsOf(d) /\ v = Paid /\ w = Paid'
  OBVIOUS
<1>2. RowsOf(d)' = A
  BY <1>1 DEF RowsOf, Returned
<1>3. \A k \in A : w[k] = v[k]
  BY <1>1 DEF Paid, RowsOf, Returned
<1>4. Spent(d)' = Total(A, w)
  BY <1>1, <1>2, SumIs DEF Spent, RowsOf
<1>5. Total(A, w) = Total(A, v)
  BY <1>1, <1>3, SpentIs, TotalSame
<1> QED
  BY <1>1, <1>4, <1>5, SpentIs

LEMMA BundleIs ==
    ASSUME TypeOK, NEW n \in Nat
    PROVE  /\ IsFiniteSet(Bundle(n)) /\ Cardinality(Bundle(n)) = n /\ Bundle(n) \cap Row = {}
<1>1. Len(spends) \in Nat /\ Row = 1..Len(spends)
  BY RowsAreASequence DEF TypeOK
<1>2. PICK m \in Nat : m = Len(spends)
  BY <1>1
<1>3. IsFiniteSet((m + 1)..(m + n)) /\ Cardinality((m + 1)..(m + n)) = n
  BY FS_Interval
<1> QED
  BY <1>1, <1>2, <1>3 DEF Bundle

\* A spend of n rows of c cents.
LEMMA BoughtSpent ==
    ASSUME TypeOK, NEW d \in Donor, NEW i \in Item, NEW c \in Amount, NEW n \in Nat,
           Bought(d, i, c, n), NEW e \in Donor
    PROVE  Spent(e)' = Spent(e) + IF e = d THEN n * c ELSE 0
<1>1. PICK A, B, v, w : A = RowsOf(e) /\ B = Bundle(n) /\ v = Paid /\ w = Paid'
  OBVIOUS
<1>2. /\ Row' = Row \cup B /\ \A k \in Row : spends[k]' = spends[k]
      /\ \A k \in B : spends[k]' = NewRow(d, i, c)
  BY <1>1 DEF Bought, Bundle
<1>3. /\ \A k \in Row : spends[k].donor' = spends[k].donor /\ w[k] = v[k]
      /\ \A k \in B : spends[k].donor' = d /\ w[k] = c
  BY <1>1, <1>2 DEF Paid, NewRow
<1>4. RowsOf(e)' = IF e = d THEN A \cup B ELSE A
  BY <1>1, <1>2, <1>3 DEF RowsOf
<1>5. Spent(e)' = Total(RowsOf(e)', w)
  BY <1>1, SumIs DEF Spent, RowsOf
<1>6. IsFiniteSet(A) /\ Total(A, v) = Spent(e) /\ Spent(e) \in Int
  BY <1>1, SpentIs
<1>7. Total(A, w) = Total(A, v)
  <2>1. \A k \in A : w[k] = v[k]
    BY <1>1, <1>3 DEF RowsOf
  <2> QED
    BY <1>6, <2>1, TotalSame
<1>8. CASE e = d
  <2>1. c \in Int /\ IsFiniteSet(B) /\ Cardinality(B) = n /\ A \cap B = {}
    BY <1>1, BundleIs, AmountsAreNumbers DEF RowsOf
  <2>2. Total(B, w) = n * c
    BY <1>3, <2>1, TotalConstant
  <2>3. \A k \in A \cup B : w[k] \in Int
    BY <1>1, <1>3, <2>1, PaidRows DEF RowsOf
  <2>4. Total(A \cup B, w) = Total(A, w) + Total(B, w)
    BY <1>6, <2>1, <2>3, TotalUnion
  <2>5. Spent(e)' = Total(A \cup B, w)
    BY <1>4, <1>5, <1>8
  <2> QED
    BY <1>6, <1>7, <1>8, <2>2, <2>4, <2>5
<1>9. CASE e # d
  BY <1>4, <1>5, <1>6, <1>7, <1>9
<1> QED
  BY <1>8, <1>9

LEMMA CreditedIs ==
    ASSUME TypeOK, NEW d
    PROVE  /\ Credited(d) = Total(GiftsOf(d), Net) /\ Credited(d) \in Int
           /\ IsFiniteSet(GiftsOf(d)) /\ \A x \in DOMAIN donations : Net[x] \in Int
<1>1. Credited(d) = Total(GiftsOf(d), Net)
  BY SumIs DEF Credited, GiftsOf, Net
<1>2. GiftsOf(d) \in SUBSET DOMAIN donations /\ IsFiniteSet(DOMAIN donations)
  BY DEF GiftsOf, TypeOK
<1>3. \A x \in DOMAIN donations : Net[x] \in Int
  BY DonationIs DEF Net
<1>4. IsFiniteSet(GiftsOf(d))
  BY <1>2, FS_Subset
<1>5. Total(GiftsOf(d), Net) \in Int
  BY <1>2, <1>3, TotalType
<1> QED
  BY <1>1, <1>3, <1>4, <1>5

LEMMA CreditedKept ==
    ASSUME TypeOK, DonationsKept, NEW d
    PROVE  Credited(d)' = Credited(d)
<1>1. PICK A, v, w : A = GiftsOf(d) /\ v = Net /\ w = Net'
  OBVIOUS
<1>2. GiftsOf(d)' = A
  BY <1>1 DEF GiftsOf, DonationsKept
<1>3. \A x \in A : w[x] = v[x]
  BY <1>1 DEF Net, GiftsOf, DonationsKept
<1>4. Credited(d)' = Total(A, w)
  BY <1>1, <1>2, SumIs DEF Credited, GiftsOf, Net
<1>5. Total(A, w) = Total(A, v)
  BY <1>1, <1>3, CreditedIs, TotalSame
<1> QED
  BY <1>1, <1>4, <1>5, CreditedIs

LEMMA DonateCredits ==
    ASSUME TypeOK, NEW x \in External, NEW d \in Donor, NEW c \in Cents, NEW s \in Shipping,
           Donate(x, d, c, s), NEW e \in Donor
    PROVE  Credited(e)' = Credited(e) + IF e = d THEN c - s ELSE 0
<1>1. PICK A, v, w : A = GiftsOf(e) /\ v = Net /\ w = Net'
  OBVIOUS
<1>2. /\ DOMAIN donations' = DOMAIN donations \cup {x} /\ x \notin DOMAIN donations
      /\ donations[x]' =
            [donor |-> d, cents |-> c, shipping |-> s,
             status |-> "COMPLETED", clawbacks |-> << >>]
      /\ \A y \in DOMAIN donations : donations[y]' = donations[y]
  BY DonateAdds
<1>3. /\ \A y \in DOMAIN donations : donations[y].donor' = donations[y].donor /\ w[y] = v[y]
      /\ donations[x].donor' = d /\ w[x] = c - s
  BY <1>1, <1>2 DEF Net
<1>4. GiftsOf(e)' = IF e = d THEN A \cup {x} ELSE A
  BY <1>1, <1>2, <1>3 DEF GiftsOf
<1>5. Credited(e)' = Total(GiftsOf(e)', w)
  BY <1>1, SumIs DEF Credited, GiftsOf, Net
<1>6. /\ IsFiniteSet(A) /\ Total(A, v) = Credited(e) /\ Credited(e) \in Int
      /\ A \subseteq DOMAIN donations /\ x \notin A /\ \A y \in A : v[y] \in Int
  BY <1>1, <1>2, CreditedIs DEF GiftsOf
<1>7. Total(A, w) = Total(A, v)
  BY <1>3, <1>6, TotalSame
<1>8. CASE e = d
  <2>1. \A y \in A \cup {x} : w[y] \in Int
    <3>1. w[x] \in Int
      BY <1>3, AmountsAreNumbers
    <3>2. \A y \in A : w[y] \in Int
      BY <1>3, <1>6
    <3> QED
      BY <3>1, <3>2
  <2>2. Total(A \cup {x}, w) = Total(A, w) + w[x]
    <3>1. IsFiniteSet(A) /\ x \notin A
      BY <1>6
    <3> QED
      BY <2>1, <3>1, TotalAdd
  <2>3. Credited(e)' = Total(A \cup {x}, w)
    BY <1>4, <1>5, <1>8
  <2> QED
    BY <1>3, <1>6, <1>7, <1>8, <2>2, <2>3
<1>9. CASE e # d
  BY <1>4, <1>5, <1>6, <1>7, <1>9
<1> QED
  BY <1>8, <1>9

\* Whatever happens, the balances are what the rows say.
LEMMA LedgerStep ==
    ASSUME TypeOK, TypeOK', LedgerBalances, DonateStep \/ BuyStep \/ GiveStep
    PROVE  LedgerBalances'
<1> SUFFICES ASSUME NEW e \in Donor
             PROVE  balance[e]' = Credited(e)' - Spent(e)' + adjusted[e]'
  BY DEF LedgerBalances
<1>1. /\ balance[e] = Credited(e) - Spent(e) + adjusted[e]
      /\ balance \in [Donor -> Int] /\ adjusted[e] \in Int
      /\ Credited(e) \in Int /\ Spent(e) \in Int
  BY SpentIs, CreditedIs DEF LedgerBalances, TypeOK
<1>2. ASSUME NEW x \in External, NEW d \in Donor, NEW c \in Cents, NEW s \in Shipping,
             Donate(x, d, c, s)
      PROVE  balance[e]' = Credited(e)' - Spent(e)' + adjusted[e]'
  <2>1. Credited(e)' = Credited(e) + IF e = d THEN c - s ELSE 0
    BY <1>2, DonateCredits
  <2>2. UNCHANGED <<spends, adjusted>> /\ balance' = [balance EXCEPT ![d] = @ + c - s]
    BY <1>2 DEF Donate
  <2>3. Spent(e)' = Spent(e)
    BY <2>2, Untouched, ReturnedSpent
  <2>4. balance[e]' = balance[e] + IF e = d THEN c - s ELSE 0
    BY <1>1, <2>2, AmountsAreNumbers
  <2> QED
    BY <1>1, <2>1, <2>2, <2>3, <2>4, AmountsAreNumbers
<1>3. ASSUME NEW d \in Donor, NEW i \in Item, NEW c \in Amount, NEW n \in Nat, NEW x \in Int,
             Buys(d, i, c, n, x)
      PROVE  balance[e]' = Credited(e)' - Spent(e)' + adjusted[e]'
  <2>1. UNCHANGED <<donations, adjusted>> /\ Bought(d, i, c, n)
    BY <1>3 DEF Buys
  <2>2. Credited(e)' = Credited(e)
    BY <2>1, DonationsStay, CreditedKept
  <2>3. PICK p \in Int : p = n * c
    BY AmountsAreNumbers
  <2>4. Spent(e)' = Spent(e) + IF e = d THEN p ELSE 0
    BY <2>1, <2>3, BoughtSpent
  <2>5. balance[e]' = balance[e] - IF e = d THEN p ELSE 0
    BY <1>1, <2>1, <2>3 DEF Bought
  <2> QED
    BY <1>1, <2>1, <2>2, <2>4, <2>5
<1>4. ASSUME NEW R \in SUBSET Row, NEW i \in Item, NEW x \in Int, Gives(R, i, x)
      PROVE  balance[e]' = Credited(e)' - Spent(e)' + adjusted[e]'
  <2>1. Credited(e)' = Credited(e) /\ Spent(e)' = Spent(e)
    BY <1>4, CreditedKept, ReturnedSpent DEF Gives
  <2>2. /\ balance[e]' - adjusted[e]' = balance[e] - adjusted[e]
        /\ balance[e]' \in Int /\ adjusted[e]' \in Int
    BY <1>4 DEF Gives, Alike
  <2> QED
    BY <1>1, <2>1, <2>2
<1> QED
  BY <1>2, <1>3, <1>4 DEF DonateStep, BuyStep, GiveStep

-----------------------------------------------------------------------------
(* The tallies.                                                            *)

LEMMA CountsIs ==
    ASSUME TypeOK, NEW k \in Row
    PROVE  /\ Each[k] \in Int /\ Counts[k] \in Int
           /\ Counts[k] = Each[k] * (1 - spends[k].refunds)
<1>1. spends[k].cents \in Nat /\ spends[k].refunds \in Nat
  BY RowIs DEF TypeOK
<1>2. PICK a, b \in Int : a = Each[k] /\ b = 1 - spends[k].refunds
  BY <1>1 DEF Each
<1>3. Counts[k] = a * b
  BY <1>2 DEF Counts, Each
<1> QED
  BY <1>2, <1>3

LEMMA CountedIs ==
    ASSUME TypeOK, NEW i
    PROVE  /\ SumOf(RowsFor(i), Counts) = Total(RowsFor(i), Counts)
           /\ Total(RowsFor(i), Counts) \in Int /\ IsFiniteSet(RowsFor(i))
<1>1. RowsFor(i) \in SUBSET Row /\ IsFiniteSet(Row)
  BY RowsAreASequence DEF RowsFor, TypeOK
<1>2. Total(RowsFor(i), Counts) \in Int
  BY <1>1, CountsIs, TotalType
<1> QED
  BY <1>1, <1>2, SumIs, FS_Subset

\* New rows count in full.
LEMMA BoughtCount ==
    ASSUME TypeOK, NEW d \in Donor, NEW i \in Item, NEW c \in Amount, NEW n \in Nat,
           Bought(d, i, c, n), NEW j
    PROVE  Total(RowsFor(j)', Counts') =
              Total(RowsFor(j), Counts)
                + IF j = i THEN n * (IF i = "reward" THEN 1 ELSE c) ELSE 0
<1>1. PICK A, B, v, w : A = RowsFor(j) /\ B = Bundle(n) /\ v = Counts /\ w = Counts'
  OBVIOUS
<1>2. PICK a \in Int : a = IF i = "reward" THEN 1 ELSE c
  BY AmountsAreNumbers
<1>3. /\ Row' = Row \cup B /\ \A k \in Row : spends[k]' = spends[k]
      /\ \A k \in B : spends[k]' = NewRow(d, i, c)
  BY <1>1 DEF Bought, Bundle
<1>4. ASSUME NEW k \in Row PROVE spends[k].item' = spends[k].item /\ w[k] = v[k]
  BY <1>1, <1>3 DEF Counts
<1>5. ASSUME NEW k \in B PROVE spends[k].item' = i /\ w[k] = a
  <2>1. /\ spends[k].item' = i /\ spends[k].cents' = c /\ spends[k].refunds' = 0
        /\ k \in Row'
    BY <1>3 DEF NewRow
  <2>2. w[k] = a * (1 - 0)
    BY <1>1, <1>2, <2>1 DEF Counts
  <2> QED
    BY <2>1, <2>2
<1>6. RowsFor(j)' = IF j = i THEN A \cup B ELSE A
  BY <1>1, <1>3, <1>4, <1>5 DEF RowsFor
<1>7. IsFiniteSet(A) /\ Total(A, v) \in Int
  BY <1>1, CountedIs
<1>8. Total(A, w) = Total(A, v)
  <2>1. \A k \in A : w[k] = v[k]
    BY <1>1, <1>4 DEF RowsFor
  <2> QED
    BY <1>7, <2>1, TotalSame
<1>9. CASE j = i
  <2>1. IsFiniteSet(B) /\ Cardinality(B) = n /\ A \cap B = {}
    BY <1>1, BundleIs DEF RowsFor
  <2>2. Total(B, w) = n * a
    BY <1>5, <2>1, TotalConstant
  <2>3. \A k \in A \cup B : w[k] \in Int
    BY <1>1, <1>4, <1>5, CountsIs DEF RowsFor
  <2>4. Total(A \cup B, w) = Total(A, w) + Total(B, w)
    BY <1>7, <2>1, <2>3, TotalUnion
  <2>5. Total(RowsFor(j)', Counts') = Total(A \cup B, w)
    BY <1>1, <1>6, <1>9
  <2> QED
    BY <1>1, <1>2, <1>7, <1>8, <1>9, <2>2, <2>4, <2>5
<1>10. CASE j # i
  <2>1. Total(RowsFor(j)', Counts') = Total(A, w)
    BY <1>1, <1>6, <1>10
  <2> QED
    BY <1>1, <1>7, <1>8, <1>10, <2>1
<1> QED
  BY <1>9, <1>10

LEMMA OneRefundMore ==
    ASSUME NEW a \in Int, NEW b \in Int
    PROVE  a * (1 - (b + 1)) = a * (1 - b) - a
<1>1. 1 - (b + 1) = (1 - b) - 1
  OBVIOUS
<1>2. PICK m \in Int : m = 1 - b
  OBVIOUS
<1>3. a * (m - 1) = a * m - a
  OBVIOUS
<1> QED
  BY <1>1, <1>2, <1>3

\* Each row given back counts for once less.
LEMMA ReturnedCount ==
    ASSUME TypeOK, NEW R \in SUBSET Row, NEW i, Returned(R), \A k \in R : spends[k].item = i,
           NEW j
    PROVE  Total(RowsFor(j)', Counts') =
              Total(RowsFor(j), Counts) - IF j = i THEN Total(R, Each) ELSE 0
<1>1. PICK A, v, w, u : /\ A = RowsFor(j) /\ v = Counts /\ w = Counts'
                        /\ u = [k \in Row |-> IF k \in R THEN Each[k] ELSE 0]
  OBVIOUS
<1>2. RowsFor(j)' = A
  BY <1>1 DEF RowsFor, Returned
<1>3. ASSUME NEW k \in Row
      PROVE  /\ v[k] \in Int /\ u[k] \in Int /\ w[k] = v[k] - u[k]
             /\ Each[k] \in Int /\ u[k] = IF k \in R THEN Each[k] ELSE 0
  <2>1. PICK a, b \in Int : a = Each[k] /\ b = spends[k].refunds
    BY CountsIs, RowIs DEF TypeOK
  <2>2. v[k] = a * (1 - b)
    BY <1>1, <2>1, CountsIs
  <2>3. u[k] = IF k \in R THEN a ELSE 0
    BY <1>1, <2>1
  <2>4. /\ k \in Row' /\ spends[k].item' = spends[k].item /\ spends[k].cents' = spends[k].cents
        /\ spends[k].refunds' = b + IF k \in R THEN 1 ELSE 0
    BY <2>1 DEF Returned
  <2>5. w[k] = a * (1 - spends[k].refunds')
    BY <1>1, <2>1, <2>4 DEF Counts, Each
  <2>6. CASE k \in R
    <3>1. w[k] = a * (1 - (b + 1))
      BY <2>4, <2>5, <2>6
    <3>2. a * (1 - (b + 1)) = a * (1 - b) - a
      BY OneRefundMore
    <3>3. PICK p \in Int : p = a * (1 - b)
      OBVIOUS
    <3> QED
      BY <2>1, <2>2, <2>3, <2>6, <3>1, <3>2, <3>3
  <2>7. CASE k \notin R
    <3>1. w[k] = a * (1 - b)
      BY <2>1, <2>4, <2>5, <2>7
    <3>2. PICK p \in Int : p = a * (1 - b)
      OBVIOUS
    <3> QED
      BY <2>1, <2>2, <2>3, <2>7, <3>1, <3>2
  <2> QED
    BY <2>6, <2>7
<1>4. IsFiniteSet(A) /\ A \subseteq Row /\ Total(A, v) \in Int
  BY <1>1, CountedIs DEF RowsFor
<1>5. Total(A, w) = Total(A, v) - Total(A, u)
  BY <1>3, <1>4, TotalMinus
<1>6. Total(A, u) = Total(A \cap R, Each)
  BY <1>3, <1>4, TotalFilter
<1>7. A \cap R = IF j = i THEN R ELSE {}
  BY <1>1 DEF RowsFor
<1>8. Total(A \cap R, Each) = IF j = i THEN Total(R, Each) ELSE 0
  BY <1>7, TotalEmpty
<1> QED
  BY <1>1, <1>2, <1>5, <1>6, <1>8

LEMMA TallyStep ==
    ASSUME TypeOK, TypeOK', TalliesFollowMoney, DonateStep \/ BuyStep \/ GiveStep
    PROVE  TalliesFollowMoney'
<1> SUFFICES ASSUME NEW j \in {"reward", "goal"}
             PROVE  tally[j]' = SumOf(RowsFor(j), Counts)'
  BY DEF TalliesFollowMoney, RowsFor
<1>1. PICK t \in Int : t = tally[j] /\ t = Total(RowsFor(j), Counts)
  <2>1. tally[j] = SumOf(RowsFor(j), Counts)
    BY DEF TalliesFollowMoney, RowsFor
  <2> QED
    BY <2>1, CountedIs
<1>2. SumOf(RowsFor(j), Counts)' = Total(RowsFor(j)', Counts')
  BY SumIs
<1>3. j \in Item
  BY ItemsDiffer
<1>4. CASE DonateStep
  <2>1. UNCHANGED <<spends, tally>>
    BY <1>4 DEF DonateStep, Donate
  <2>2. RowsFor(j)' = RowsFor(j) /\ Counts' = Counts
    BY <2>1 DEF RowsFor, Counts, Row
  <2> QED
    BY <1>1, <1>2, <2>1, <2>2
<1>5. ASSUME NEW d \in Donor, NEW i \in Item, NEW c \in Amount, NEW n \in Nat, NEW x \in Int,
             Buys(d, i, c, n, x)
      PROVE  tally[j]' = SumOf(RowsFor(j), Counts)'
  <2>1. PICK p \in Int : p = n * (IF i = "reward" THEN 1 ELSE c)
    BY AmountsAreNumbers
  <2>2. Total(RowsFor(j)', Counts') = t + IF j = i THEN p ELSE 0
    BY <1>1, <1>5, <2>1, BoughtCount DEF Buys
  <2>3. tally[j]' = t + IF j = i THEN x ELSE 0
    BY <1>1, <1>3, <1>5 DEF Buys, TallyMoves
  <2>4. j = i => x = p
    <3>1. CASE j = i /\ i = "reward"
      BY <1>5, <2>1, <3>1 DEF Buys
    <3>2. CASE j = i /\ i = "goal"
      BY <1>5, <2>1, <3>2 DEF Buys
    <3> QED
      BY <3>1, <3>2
  <2> QED
    BY <1>2, <2>2, <2>3, <2>4
<1>6. ASSUME NEW R \in SUBSET Row, NEW i \in Item, NEW x \in Int, Gives(R, i, x)
      PROVE  tally[j]' = SumOf(RowsFor(j), Counts)'
  <2>1. Total(RowsFor(j)', Counts') = t - IF j = i THEN Total(R, Each) ELSE 0
    BY <1>1, <1>6, ReturnedCount DEF Gives
  <2>2. tally[j]' = t + IF j = i THEN -x ELSE 0
    BY <1>1, <1>3, <1>6 DEF Gives, TallyMoves
  <2>3. j = i => x = Total(R, Each)
    BY <1>6 DEF Gives
  <2> QED
    BY <1>1, <1>2, <2>1, <2>2, <2>3
<1> QED
  BY <1>4, <1>5, <1>6 DEF BuyStep, GiveStep

\* The total of the poll moves with its options.
LEMMA TotalStep ==
    ASSUME TypeOK, PollTotalIsSum, NEW i \in Item, NEW x \in Int, TallyMoves(i, x)
    PROVE  PollTotalIsSum'
<1>1. PICK v, w : v = tally /\ w = tally'
  OBVIOUS
<1>2. \A j \in Item : v[j] \in Int /\ w[j] = v[j] + IF j = i THEN x ELSE 0
  BY <1>1 DEF TallyMoves, TypeOK
<1>3. IsFiniteSet(Option) /\ Option \subseteq Item
  BY ConstantsAssumption, ItemsDiffer DEF Option
<1>4. total = Total(Option, v) /\ total \in Int
  BY <1>1, SumIs DEF PollTotalIsSum, TypeOK
<1>5. total' = total + IF i \in Option THEN x ELSE 0
  BY DEF TallyMoves
<1>6. CASE i \in Option
  <2>1. \A j \in Option \ {i} : w[j] = v[j]
    BY <1>2, <1>3
  <2>2. \A j \in Option : w[j] \in Int /\ v[j] \in Int
    BY <1>2, <1>3
  <2>3. Total(Option, w) = Total(Option, v) + w[i] - v[i]
    BY <1>3, <1>6, <2>1, <2>2, TotalChange
  <2>4. total' = Total(Option, w)
    BY <1>2, <1>4, <1>5, <1>6, <2>3
  <2> QED
    BY <1>1, <2>4, SumIs DEF PollTotalIsSum
<1>7. CASE i \notin Option
  <2>1. \A j \in Option : w[j] = v[j]
    BY <1>2, <1>3, <1>7
  <2>2. Total(Option, w) = Total(Option, v)
    BY <1>3, <2>1, TotalSame
  <2>3. total' = Total(Option, w)
    BY <1>4, <1>5, <1>7, <2>2
  <2> QED
    BY <1>1, <2>3, SumIs DEF PollTotalIsSum
<1> QED
  BY <1>6, <1>7

LEMMA PollStep ==
    ASSUME TypeOK, PollTotalIsSum, DonateStep \/ BuyStep \/ GiveStep
    PROVE  PollTotalIsSum'
<1>1. CASE DonateStep
  BY <1>1 DEF DonateStep, Donate, poll, PollTotalIsSum
<1>2. CASE BuyStep
  BY <1>2, TotalStep DEF BuyStep, Buys
<1>3. CASE GiveStep
  <2>1. PICK R \in SUBSET Row, i \in Item, x \in Int : TallyMoves(i, -x)
    BY <1>3 DEF GiveStep, Gives
  <2>2. -x \in Int
    OBVIOUS
  <2> QED
    BY <2>1, <2>2, TotalStep
<1> QED
  BY <1>1, <1>2, <1>3

-----------------------------------------------------------------------------
(* What the options and the requests rely on.                              *)

\* RequestInv for one request.
Good(q) ==
    /\ q.op = "reverse" =>
          /\ q.row \in Row
          /\ spends[q.row].item # "reward" => q.cents = spends[q.row].cents
    /\ q.op = "moderate" =>
          /\ q.option \in Option /\ option[q.option] # "NONE"
          /\ q.ready => q.row \in Row /\ spends[q.row].item = q.option

RowsStay ==
    /\ Row \subseteq Row'
    /\ \A k \in Row : spends[k].item' = spends[k].item /\ spends[k].cents' = spends[k].cents
OptionsStay ==
    /\ \A o \in Option : option[o]' = "NONE" => option[o] = "NONE" /\ tally[o]' = tally[o]
    /\ \A o \in Custom : entry[o]' # "NONE" => entry[o] # "NONE" \/ option[o]' # "NONE"
NewRowsFor(i) ==
    /\ \A k \in Row' : k \in Row \/ spends[k].item' = i
    /\ i \in Option => option[i]' # "NONE"
RequestsStay ==
    \A r \in Staff :
        \/ request[r]' = request[r] \/ request[r]' = Idle
        \/ \E q \in Request : request[r]' = q /\ Good(q)
Sane == RowsStay /\ OptionsStay /\ RequestsStay /\ \E i \in Item : NewRowsFor(i)

LEMMA RequestsAreGood ==
    ASSUME TypeOK, RequestInv, NEW r \in Staff
    PROVE  Good(request[r])
<1>1. PICK q \in Request : q = request[r]
  BY RequestIs
<1>2. /\ q.op = "reverse" /\ spends[q.row].item # "reward" => q.cents = spends[q.row].cents
      /\ q.op = "moderate" => option[q.option] # "NONE"
      /\ q.op = "moderate" /\ q.ready => spends[q.row].item = q.option
  BY <1>1 DEF RequestInv
<1>3. /\ q.op = "reverse" => q.row \in Row
      /\ q.op = "moderate" => q.option \in Option /\ (q.ready => q.row \in Row)
  BY <1>1, RequestIs, ItemsDiffer DEF IsReverse, IsModerate
<1> QED
  BY <1>1, <1>2, <1>3 DEF Good

LEMMA GoodStays ==
    ASSUME RowsStay, OptionsStay, NEW q, Good(q)
    PROVE  Good(q)'
  BY DEF Good, RowsStay, OptionsStay

LEMMA OptionStep ==
    ASSUME TypeOK, OptionInv, RowsStay, OptionsStay, NEW i \in Item, NewRowsFor(i)
    PROVE  OptionInv'
<1>1. ASSUME NEW k \in Row', spends[k].item' \in Option
      PROVE  option[spends[k].item]' # "NONE"
  <2>1. PICK o \in Option : o = spends[k].item'
    BY <1>1
  <2>2. CASE k \in Row
    <3>1. spends[k].item = o /\ option[o] # "NONE"
      BY <2>1, <2>2 DEF RowsStay, OptionInv
    <3> QED
      BY <2>1, <3>1 DEF OptionsStay
  <2>3. CASE k \notin Row
    BY <2>1, <2>3 DEF NewRowsFor
  <2> QED
    BY <2>2, <2>3
<1>2. ASSUME NEW o \in Custom, entry[o]' # "NONE" PROVE option[o]' # "NONE"
  BY <1>2, ItemsDiffer DEF OptionsStay, OptionInv
<1>3. ASSUME NEW o \in Option, option[o]' = "NONE" PROVE tally[o]' = 0
  BY <1>3 DEF OptionsStay, OptionInv
<1> QED
  BY <1>1, <1>2, <1>3 DEF OptionInv

LEMMA RequestInvStep ==
    ASSUME TypeOK, RequestInv, RowsStay, OptionsStay, RequestsStay
    PROVE  RequestInv'
<1>1. ASSUME NEW r \in Staff PROVE Good(request[r])'
  <2>1. PICK q : q = request'[r]
    OBVIOUS
  <2>2. Good(q)'
    <3>1. Good(Idle)
      BY DEF Good, Idle
    <3>2. q = request[r] \/ q = Idle \/ Good(q)
      BY <2>1 DEF RequestsStay
    <3>3. Good(q)
      BY <3>1, <3>2, RequestsAreGood
    <3> QED
      BY <3>3, GoodStays
  <2> QED
    BY <2>1, <2>2 DEF Good
<1> QED
  BY <1>1 DEF RequestInv, Good

LEMMA SaneStep ==
    ASSUME TypeOK, OptionInv, RequestInv, Sane
    PROVE  OptionInv' /\ RequestInv'
  BY OptionStep, RequestInvStep DEF Sane

\* The parts of Sane for the kinds of steps.
LEMMA SameRows ==
    ASSUME NEW R, Returned(R)
    PROVE  RowsStay /\ NewRowsFor("goal")
  BY ItemsDiffer DEF Returned, RowsStay, NewRowsFor

LEMMA MoreRows ==
    ASSUME NEW d, NEW i \in Item, NEW c, NEW n, Bought(d, i, c, n),
           i \in Option => option[i]' # "NONE"
    PROVE  RowsStay /\ NewRowsFor(i)
  BY DEF Bought, NewRow, RowsStay, NewRowsFor

LEMMA SameOptions ==
    ASSUME UNCHANGED <<option, entry>>, \A o \in Option : tally[o]' = tally[o]
    PROVE  OptionsStay
  BY DEF OptionsStay

LEMMA SameRequests ==
    ASSUME UNCHANGED request
    PROVE  RequestsStay
  BY DEF RequestsStay

LEMMA EndsRequest ==
    ASSUME TypeOK, NEW r \in Staff, NEW op, Ends(r, op)
    PROVE  RequestsStay
  BY DEF Ends, RequestsStay, TypeOK

LEMMA ReadsRequest ==
    ASSUME TypeOK, NEW r \in Staff, NEW q \in Request, Good(q),
           request' = [request EXCEPT ![r] = q]
    PROVE  RequestsStay
  BY DEF RequestsStay, TypeOK

\* A step that changes neither rows, options nor tallies.
LEMMA QuietSane ==
    ASSUME TypeOK, Returned({}), RequestsStay, UNCHANGED <<option, entry, tally>>
    PROVE  Sane
  BY SameRows, SameOptions, ItemsDiffer DEF Sane

LEMMA DonorSane ==
    ASSUME TypeOK, OptionInv, DonorStep
    PROVE  Sane
<1>1. ASSUME NEW x \in External, NEW d \in Donor, NEW c \in Cents, NEW s \in Shipping,
             Donate(x, d, c, s)
      PROVE  Sane
  BY <1>1, Untouched, SameRequests, QuietSane DEF Donate, poll, rest
<1>2. ASSUME NEW d \in Donor, NEW n \in 1..Stock, Claim(d, n)
      PROVE  Sane
  <2>1. n \in Nat /\ price \in Amount
    BY ConstantsAssumption DEF TypeOK, Amount
  <2>2. Bought(d, "reward", price, n)
    BY <1>2, <2>1, ItemsDiffer, SpendsBuys DEF Claim
  <2>3. UNCHANGED <<option, entry, request>> /\ \A o \in Option : tally[o]' = tally[o]
    BY <1>2, ItemsDiffer DEF Claim, poll, rest, TypeOK
  <2> QED
    BY <2>2, <2>3, ItemsDiffer, MoreRows, SameOptions, SameRequests DEF Sane
<1>3. ASSUME NEW d \in Donor, NEW o \in Option, NEW c \in Cents, Vote(d, o, c)
      PROVE  Sane
  <2>1. Bought(d, o, c, 1)
    BY <1>3, ItemsDiffer, SpendsBuys DEF Vote, Amount
  <2>2. /\ UNCHANGED <<option, entry, request>> /\ option[o] # "NONE"
        /\ tally' = [tally EXCEPT ![o] = @ + c]
    BY <1>3 DEF Vote, rest
  <2>3. OptionsStay
    BY <2>2, ItemsDiffer DEF OptionsStay, TypeOK
  <2> QED
    BY <2>1, <2>2, <2>3, ItemsDiffer, MoreRows, SameRequests DEF Sane
<1>4. ASSUME NEW d \in Donor, NEW o \in Custom, NEW c \in Cents, NEW auto \in BOOLEAN,
             Propose(d, o, c, auto)
      PROVE  Sane
  <2>1. Bought(d, o, c, 1)
    BY <1>4, ItemsDiffer, SpendsBuys DEF Propose, Amount
  <2>2. PICK st \in {"ACTIVE", "PENDING_APPROVAL"} :
           st = IF auto THEN "ACTIVE" ELSE "PENDING_APPROVAL"
    OBVIOUS
  <2>3. PICK es, x : es = EntryStatus(auto) /\ x = FirstVotes(auto, c)
    OBVIOUS
  <2>4. /\ option' = [option EXCEPT ![o] = st] /\ entry' = [entry EXCEPT ![o] = es]
        /\ tally' = [tally EXCEPT ![o] = x] /\ UNCHANGED request
    BY <1>4, <2>2, <2>3 DEF Propose, rest
  <2>5. OptionsStay /\ option[o]' # "NONE"
    BY <2>2, <2>4, ItemsDiffer DEF OptionsStay, TypeOK
  <2> QED
    BY <2>1, <2>4, <2>5, ItemsDiffer, MoreRows, SameRequests DEF Sane
<1>5. ASSUME NEW d \in Donor, NEW c \in Cents, Contribute(d, c)
      PROVE  Sane
  <2>1. Bought(d, "goal", c, 1)
    BY <1>5, ItemsDiffer, SpendsBuys DEF Contribute, Amount
  <2>2. UNCHANGED <<option, entry, request>> /\ \A o \in Option : tally[o]' = tally[o]
    BY <1>5, ItemsDiffer DEF Contribute, poll, rest, TypeOK
  <2> QED
    BY <2>1, <2>2, ItemsDiffer, MoreRows, SameOptions, SameRequests DEF Sane
<1> QED
  BY <1>1, <1>2, <1>3, <1>4, <1>5 DEF DonorStep

LEMMA ClaimStatusReturns ==
    ASSUME TypeOK, NEW k \in Row, NEW st \in {"PENDING", "FULFILLED"}, SetClaim(k, st)
    PROVE  RowsStay /\ NewRowsFor("goal")
<1>1. spends' = [spends EXCEPT ![k] = [@ EXCEPT !.status = st]]
  BY DEF SetClaim
<1>2. spends[k] \in Spend
  BY RowsAreASequence DEF TypeOK
<1>3. Row' = Row
  BY <1>1 DEF Row
<1>4. ASSUME NEW j \in Row
      PROVE  spends[j].item' = spends[j].item /\ spends[j].cents' = spends[j].cents
  BY <1>1, <1>2 DEF Row, Spend
<1> QED
  BY <1>3, <1>4, ItemsDiffer DEF RowsStay, NewRowsFor

LEMMA StaffSane ==
    ASSUME TypeOK, OptionInv, StaffStep
    PROVE  Sane
<1>1. ASSUME NEW x \in DOMAIN donations,
             NEW st \in {"PENDING", "COMPLETED", "REFUNDED", "CHARGEBACK"}, SetStatus(x, st)
      PROVE  Sane
  BY <1>1, Untouched, SameRequests, QuietSane DEF SetStatus, poll, rest
<1>2. ASSUME NEW c \in Prices, Reprice(c)
      PROVE  Sane
  BY <1>2, Untouched, SameRequests, QuietSane DEF Reprice, poll, rest
<1>3. ASSUME NEW k \in Row, NEW st \in {"PENDING", "FULFILLED"}, SetClaim(k, st)
      PROVE  Sane
  <2>1. UNCHANGED <<option, entry, tally, request>>
    BY <1>3 DEF SetClaim, poll, rest
  <2> QED
    BY <1>3, <2>1, ClaimStatusReturns, SameOptions, SameRequests, ItemsDiffer DEF Sane
<1>4. ASSUME NEW o \in Option, NEW removed \in BOOLEAN, RefundOption(o, removed)
      PROVE  Sane
  <2>1. PICK R \in SUBSET Row : R = LiveOn(o)
    BY LiveRows
  <2>2. Returned(R)
    BY <1>4, <2>1, PaidRows, GiveBackReturns DEF RefundOption
  <2>3. PICK x : x = IF option[o] = "ACTIVE" THEN SumOf(LiveOn(o), Paid) ELSE 0
    OBVIOUS
  <2>4. /\ tally' = [tally EXCEPT ![o] = @ - x] /\ option[o] # "NONE"
        /\ option' = IF removed THEN [option EXCEPT ![o] = "REJECTED"] ELSE option
        /\ UNCHANGED <<entry, request>>
    BY <1>4, <2>3 DEF RefundOption, rest
  <2>5. OptionsStay
    BY <2>4, ItemsDiffer DEF OptionsStay, TypeOK
  <2> QED
    BY <2>2, <2>4, <2>5, SameRows, SameRequests, ItemsDiffer DEF Sane
<1>5. ASSUME RefundGoal
      PROVE  Sane
  <2>1. PICK R \in SUBSET Row : R = LiveOn("goal")
    BY LiveRows
  <2>2. Returned(R)
    BY <1>5, <2>1, PaidRows, GiveBackReturns DEF RefundGoal
  <2>3. /\ UNCHANGED <<option, entry, request>> /\ \A o \in Option : tally[o]' = tally[o]
    BY <1>5, ItemsDiffer DEF RefundGoal, poll, rest, TypeOK
  <2> QED
    BY <2>2, <2>3, SameRows, SameOptions, SameRequests, ItemsDiffer DEF Sane
<1> QED
  BY <1>1, <1>2, <1>3, <1>4, <1>5 DEF StaffStep

LEMMA StartsSane ==
    ASSUME TypeOK, NEW r \in Staff, NEW q \in Request, Good(q), Starts(r, q)
    PROVE  Sane
<1>1. /\ UNCHANGED <<spends, option, entry, tally>>
      /\ request' = [request EXCEPT ![r] = q]
  BY DEF Starts
<1> QED
  BY <1>1, Untouched, ReadsRequest, QuietSane

LEMMA ReadsSane ==
    ASSUME TypeOK, NEW r \in Staff, NEW q \in Request, Good(q),
           UNCHANGED <<spends, option, entry, tally>>, request' = [request EXCEPT ![r] = q]
    PROVE  Sane
  BY Untouched, ReadsRequest, QuietSane

\* A write that ends its request and moves balances only.
LEMMA WritesSane ==
    ASSUME TypeOK, NEW r \in Staff, NEW op, Ends(r, op), UNCHANGED <<spends, option, entry, tally>>
    PROVE  Sane
  BY Untouched, EndsRequest, QuietSane

LEMMA RequestSane ==
    ASSUME TypeOK, OptionInv, RequestInv, NEW r \in Staff, RequestStep(r)
    PROVE  Sane
<1>1. ASSUME NEW d \in Donor, NEW c \in Adjustments, AdjustRead(r, d, c)
      PROVE  Sane
  <2>1. PICK q : q = [op |-> "adjust", donor |-> d, cents |-> c, ready |-> TRUE]
    OBVIOUS
  <2>2. q \in Request /\ Good(q)
    BY <2>1 DEF Request, Good
  <2> QED
    BY <1>1, <2>1, <2>2, StartsSane DEF AdjustRead
<1>2. CASE AdjustWrite(r)
  BY <1>2, WritesSane DEF AdjustWrite, poll
<1>3. CASE SweepRead(r)
  <2>1. PICK swept \in SUBSET {d \in Donor : balance[d] > 0} :
           Starts(r, [op |-> "sweep", ready |-> TRUE,
                      took |-> [d \in Donor |-> IF d \in swept THEN balance[d] ELSE 0]])
    BY <1>3 DEF SweepRead
  <2>2. PICK took : took = [d \in Donor |-> IF d \in swept THEN balance[d] ELSE 0]
    OBVIOUS
  <2>3. took \in [Donor -> Nat]
    BY <2>2 DEF TypeOK
  <2>4. PICK q : q = [op |-> "sweep", ready |-> TRUE, took |-> took]
    OBVIOUS
  <2>5. q \in Request /\ Good(q)
    BY <2>3, <2>4 DEF Request, Good
  <2> QED
    BY <2>1, <2>2, <2>4, <2>5, StartsSane
<1>4. CASE SweepWrite(r)
  BY <1>4, WritesSane DEF SweepWrite, poll
<1>5. ASSUME NEW k \in Row, ReverseRead(r, k)
      PROVE  Sane
  <2>1. PICK b \in BOOLEAN : b = (spends[k].item = "reward")
    OBVIOUS
  <2>2. PICK c \in Amount : c = IF spends[k].item = "reward" THEN price ELSE spends[k].cents
    BY RowIs DEF TypeOK, Amount
  <2>3. PICK q : q = [op |-> "reverse", row |-> k, ready |-> b, flag |-> FALSE, cents |-> c]
    OBVIOUS
  <2>4. Starts(r, q)
    BY <1>5, <2>1, <2>2, <2>3 DEF ReverseRead
  <2>5. q \in Request /\ Good(q)
    BY <2>2, <2>3 DEF Request, Good, Amount
  <2> QED
    BY <2>4, <2>5, StartsSane
<1>6. CASE ReverseSeen(r)
  <2>1. request[r].op = "reverse"
    BY <1>6 DEF ReverseSeen, Waits
  <2>2. PICK b \in BOOLEAN :
           request' = [request EXCEPT ![r] = [@ EXCEPT !.ready = TRUE, !.flag = b]]
    BY <1>6, SeenIs
  <2>3. PICK q : q = [request[r] EXCEPT !.ready = TRUE, !.flag = b]
    OBVIOUS
  <2>4. q \in Request /\ q.op = "reverse" /\ q.row = request[r].row /\ q.cents = request[r].cents
    <3>1. PICK old : old = request[r]
      OBVIOUS
    <3>2. old \in [op : {"reverse"}, row : Row, cents : Cents \cup Prices,
                   ready : BOOLEAN, flag : BOOLEAN]
      BY <2>1, <3>1, ReverseRequest
    <3>3. q = [old EXCEPT !.ready = TRUE, !.flag = b]
      BY <2>3, <3>1
    <3>4. q \in Request /\ q.op = "reverse" /\ q.row = old.row /\ q.cents = old.cents
      BY <2>2, <3>2, <3>3, SeenRequest
    <3> QED
      BY <3>1, <3>4
  <2>5. Good(q)
    BY <2>1, <2>4, RequestsAreGood DEF Good
  <2>6. request' = [request EXCEPT ![r] = q]
    BY <2>2, <2>3
  <2> QED
    BY <1>6, <2>4, <2>5, <2>6, ReadsSane DEF ReverseSeen
<1>7. CASE ReverseClaim(r)
  <2>1. /\ Reverse(r, {"reward"}) /\ tally' = [tally EXCEPT !["reward"] = @ - 1]
        /\ UNCHANGED <<donations, option, entry>>
    BY <1>7 DEF ReverseClaim, poll
  <2>2. PICK k \in Row : Returned({k})
    BY <2>1, ReverseIs
  <2>3. \A o \in Option : tally[o]' = tally[o]
    BY <2>1, ItemsDiffer DEF TypeOK
  <2> QED
    BY <2>1, <2>2, <2>3, SameRows, SameOptions, EndsRequest, ItemsDiffer DEF Sane, Reverse
<1>8. CASE ReverseVote(r)
  <2>1. Reverse(r, Option) /\ UNCHANGED <<donations, entry>>
    BY <1>8 DEF ReverseVote
  <2>2. PICK k \in Row : k = request[r].row /\ spends[k].item \in Option /\ Returned({k})
    BY <2>1, ReverseIs
  <2>3. PICK o, c : o \in Option /\ o = spends[k].item /\ c = request[r].cents
    BY <2>2
  <2>4. /\ tally' = IF request[r].flag THEN [tally EXCEPT ![o] = @ - c] ELSE tally
        /\ option' = IF request[r].flag THEN option ELSE [option EXCEPT ![o] = "REJECTED"]
    BY <1>8, <2>2, <2>3 DEF ReverseVote
  <2>5. option[o] # "NONE"
    BY <2>3 DEF OptionInv
  <2>6. OptionsStay
    BY <2>1, <2>4, <2>5, ItemsDiffer DEF OptionsStay, TypeOK
  <2> QED
    BY <2>1, <2>2, <2>6, SameRows, EndsRequest, ItemsDiffer DEF Sane, Reverse
<1>9. CASE ReverseContribution(r)
  <2>1. /\ Reverse(r, {"goal"}) /\ tally' = [tally EXCEPT !["goal"] = @ - request[r].cents]
        /\ UNCHANGED <<donations, option, entry>>
    BY <1>9 DEF ReverseContribution, poll
  <2>2. PICK k \in Row : Returned({k})
    BY <2>1, ReverseIs
  <2>3. \A o \in Option : tally[o]' = tally[o]
    BY <2>1, ItemsDiffer DEF TypeOK
  <2> QED
    BY <2>1, <2>2, <2>3, SameRows, SameOptions, EndsRequest, ItemsDiffer DEF Sane, Reverse
<1>10. ASSUME NEW o \in Custom, NEW v \in {"APPROVED", "REJECTED"}, ModerateRead(r, o, v)
       PROVE  Sane
  <2>1. PICK q : q = [op |-> "moderate", option |-> o, verdict |-> v, row |-> 0, ready |-> FALSE]
    OBVIOUS
  <2>2. option[o] # "NONE"
    BY <1>10 DEF ModerateRead, OptionInv
  <2>3. q \in Request /\ Good(q)
    BY <2>1, <2>2, ItemsDiffer DEF Request, Good
  <2> QED
    BY <1>10, <2>1, <2>3, StartsSane DEF ModerateRead
<1>11. CASE FindVote(r)
  <2>1. /\ request[r].op = "moderate" /\ ~request[r].ready
        /\ UNCHANGED <<spends, option, entry, tally>>
    BY <1>11 DEF FindVote, Waits
  <2>2. PICK V \in SUBSET Row : V = LiveOn(request[r].option)
    BY LiveRows
  <2>3. CASE V = {}
    <3>1. request' = [request EXCEPT ![r] = Idle]
      BY <1>11, <2>2, <2>3 DEF FindVote
    <3>2. Idle \in Request /\ Good(Idle)
      BY DEF Request, Good, Idle
    <3> QED
      BY <2>1, <3>1, <3>2, ReadsSane
  <2>4. CASE V # {}
    <3>1. PICK k \in V : k = Max(V)
      BY <2>4, LatestIs
    <3>2. k \in Row /\ spends[k].item = request[r].option
      BY <2>2, LiveRows
    <3>3. PICK q : q = [request[r] EXCEPT !.row = k, !.ready = TRUE]
      OBVIOUS
    <3>4. q \in Request /\ q.op = "moderate" /\ q.row = k /\ q.option = request[r].option
      BY <2>1, <3>2, <3>3, FoundRequest
    <3>5. Good(q)
      BY <2>1, <3>2, <3>4, RequestsAreGood DEF Good
    <3>6. request' = [request EXCEPT ![r] = q]
      <4>1. request' = [request EXCEPT ![r].row = k, ![r].ready = TRUE]
        BY <1>11, <2>2, <2>4, <3>1 DEF FindVote
      <4> QED
        BY <3>3, <4>1
    <3> QED
      BY <2>1, <3>4, <3>5, <3>6, ReadsSane
  <2> QED
    BY <2>3, <2>4
<1>12. CASE Approve(r)
  <2>1. PICK o, c : o \in Custom /\ o = request[r].option /\ c = Paid[request[r].row]
    BY <1>12, ModerateIs DEF Approve
  <2>2. /\ tally' = [tally EXCEPT ![o] = @ + c] /\ option' = [option EXCEPT ![o] = "ACTIVE"]
        /\ entry' = [entry EXCEPT ![o] = "APPROVED"] /\ UNCHANGED spends
        /\ Ends(r, "moderate")
    BY <1>12, <2>1 DEF Approve
  <2>3. OptionsStay
    BY <2>2, ItemsDiffer DEF OptionsStay, TypeOK
  <2> QED
    BY <2>2, <2>3, Untouched, SameRows, EndsRequest, ItemsDiffer DEF Sane
<1>13. CASE Refuse(r)
  <2>1. PICK o \in Custom, k \in Row : o = request[r].option /\ k = request[r].row
    BY <1>13, ModerateIs DEF Refuse
  <2>2. /\ GiveBack({k}, Paid) /\ option' = [option EXCEPT ![o] = "REJECTED"]
        /\ entry' = [entry EXCEPT ![o] = "REJECTED"] /\ UNCHANGED tally
        /\ Ends(r, "moderate")
    BY <1>13, <2>1 DEF Refuse
  <2>3. Returned({k})
    <3>1. {k} \in SUBSET Row /\ \A j \in Row : Paid[j] \in Int
      BY PaidRows
    <3> QED
      BY <2>2, <3>1, GiveBackReturns
  <2>4. OptionsStay
    BY <2>2, ItemsDiffer DEF OptionsStay, TypeOK
  <2> QED
    BY <2>2, <2>3, <2>4, SameRows, EndsRequest, ItemsDiffer DEF Sane
<1>14. CASE \/ \E d \in Donor, c \in Adjustments : AdjustRead(r, d, c)
            \/ AdjustWrite(r) \/ SweepRead(r) \/ SweepWrite(r)
  BY <1>1, <1>2, <1>3, <1>4, <1>14
<1>15. CASE \/ \E k \in Row : ReverseRead(r, k)
            \/ ReverseSeen(r) \/ ReverseClaim(r) \/ ReverseVote(r) \/ ReverseContribution(r)
  BY <1>5, <1>6, <1>7, <1>8, <1>9, <1>15
<1>16. CASE \/ \E o \in Custom, v \in {"APPROVED", "REJECTED"} : ModerateRead(r, o, v)
            \/ FindVote(r) \/ Approve(r) \/ Refuse(r)
  BY <1>10, <1>11, <1>12, <1>13, <1>16
<1> QED
  BY <1>14, <1>15, <1>16 DEF RequestStep

-----------------------------------------------------------------------------
(* The theorems.                                                           *)

LEMMA StartsFine == Init => TypeOK /\ WalletInv
<1> SUFFICES ASSUME Init PROVE TypeOK /\ WalletInv
  OBVIOUS
<1>1. /\ spends = << >> /\ donations = << >> /\ DOMAIN spends = {} /\ DOMAIN donations = {}
      /\ balance = [d \in Donor |-> 0] /\ adjusted = balance
      /\ tally = [i \in Item |-> 0] /\ total = 0
      /\ request = [r \in Staff |-> Idle] /\ requests = 0
      /\ option = [o \in Option |-> IF o \in Listed THEN "ACTIVE" ELSE "NONE"]
      /\ entry = [o \in Custom |-> "NONE"]
  BY DEF Init
<1>2. WalletType
  <2>1. spends \in Seq(Spend)
    BY <1>1, EmptySeq
  <2>2. IsFiniteSet(DOMAIN donations)
    BY <1>1, FS_EmptySet
  <2>3. donations \in [DOMAIN donations -> Donation]
    BY <1>1
  <2> QED
    BY <1>1, <2>1, <2>2, <2>3 DEF WalletType
<1>3. RestType
  <2>1. price \in Prices /\ complete \in BOOLEAN
    BY DEF Init
  <2>2. tally \in [Item -> Int] /\ total \in Int
    BY <1>1
  <2>3. option \in [Option -> OptionStatus] /\ entry \in [Custom -> EntryStatuses]
    BY <1>1 DEF OptionStatus, EntryStatuses
  <2> QED
    BY <2>1, <2>2, <2>3 DEF RestType
<1>4. RequestType
  BY <1>1, ConstantsAssumption DEF RequestType, Request
<1>5. TypeOK
  BY <1>2, <1>3, <1>4, TypeParts
<1>6. LedgerBalances
  <2> SUFFICES ASSUME NEW d \in Donor PROVE balance[d] = Credited(d) - Spent(d) + adjusted[d]
    BY DEF LedgerBalances
  <2>1. RowsOf(d) = {} /\ GiftsOf(d) = {}
    BY <1>1 DEF RowsOf, GiftsOf, Row
  <2>2. Total(RowsOf(d), Paid) = 0 /\ Total(GiftsOf(d), Net) = 0
    BY <2>1, TotalEmpty
  <2>3. Credited(d) = 0 /\ Spent(d) = 0
    BY <1>5, <2>2, SpentIs, CreditedIs
  <2> QED
    BY <1>1, <2>3
<1>7. TalliesFollowMoney
  <2> SUFFICES ASSUME NEW i \in {"reward", "goal"}
               PROVE  tally[i] = SumOf(RowsFor(i), Counts)
    BY DEF TalliesFollowMoney, RowsFor
  <2>1. RowsFor(i) = {}
    BY <1>1 DEF RowsFor, Row
  <2>2. SumOf(RowsFor(i), Counts) = 0
    BY <2>1, SumIs, TotalEmpty
  <2> QED
    BY <1>1, <2>2, ItemsDiffer
<1>8. PollTotalIsSum
  <2>1. IsFiniteSet(Option) /\ \A o \in Option : tally[o] = 0
    BY <1>1, ConstantsAssumption, ItemsDiffer DEF Option
  <2>2. Total(Option, tally) = Cardinality(Option) * 0
    BY <2>1, TotalConstant
  <2>3. Cardinality(Option) * 0 = 0
    BY <2>1, FS_CardinalityType
  <2> QED
    BY <1>1, <2>2, <2>3, SumIs DEF PollTotalIsSum
<1>9. OptionInv
  BY <1>1, ItemsDiffer DEF OptionInv, Row
<1>10. RequestInv
  BY <1>1 DEF RequestInv, Idle
<1> QED
  BY <1>5, <1>6, <1>7, <1>8, <1>9, <1>10 DEF WalletInv

LEMMA WalletStep ==
    ASSUME TypeOK, WalletInv, [Next]_vars
    PROVE  TypeOK' /\ WalletInv'
<1>1. LedgerBalances /\ TalliesFollowMoney /\ PollTotalIsSum /\ OptionInv /\ RequestInv
  BY DEF WalletInv
<1>2. TypeOK' /\ (DonateStep \/ BuyStep \/ GiveStep)
  BY <1>1, StepKinds
<1>3. LedgerBalances' /\ TalliesFollowMoney' /\ PollTotalIsSum'
  BY <1>1, <1>2, LedgerStep, TallyStep, PollStep
<1>4. OptionInv' /\ RequestInv'
  <2>1. CASE Next
    <3>1. Sane
      BY <1>1, <2>1, DonorSane, StaffSane, RequestSane DEF Next
    <3> QED
      BY <1>1, <3>1, SaneStep
  <2>2. CASE UNCHANGED vars
    <3>1. UNCHANGED <<spends, tally, option, entry, request>>
      BY <2>2 DEF vars
    <3> QED
      BY <1>1, <3>1, Untouched, SameRequests, QuietSane, SaneStep
  <2> QED
    BY <2>1, <2>2
<1> QED
  BY <1>2, <1>3, <1>4 DEF WalletInv

\* Every reachable state has the types of the tables, and in it the balances, the
\* tallies and the total of the poll are what the rows say (services/spend.ts,
\* services/refund.ts, the routes of routes/admin.ts and routes/moderator.ts).
THEOREM WalletCorrect == Spec => [](TypeOK /\ WalletInv)
<1>1. Init => TypeOK /\ WalletInv
  BY StartsFine
<1>2. TypeOK /\ WalletInv /\ [Next]_vars => (TypeOK /\ WalletInv)'
  BY WalletStep
<1> QED
  BY <1>1, <1>2, PTL DEF Spec

\* A balance is what was donated less what was spent plus the adjustments, in every
\* order of donations, spends, sweeps, reversals and moderation.
THEOREM LedgerBalancesHolds == Spec => []LedgerBalances
<1>1. TypeOK /\ WalletInv => LedgerBalances
  BY DEF WalletInv
<1> QED
  BY <1>1, WalletCorrect, PTL

\* quantity_claimed and current_cents are what the rows count for, each refund taken
\* off once for each time it was paid.
THEOREM TalliesFollowMoneyHolds == Spec => []TalliesFollowMoney
<1>1. TypeOK /\ WalletInv => TalliesFollowMoney
  BY DEF WalletInv
<1> QED
  BY <1>1, WalletCorrect, PTL

\* total_votes_cents is the sum of the options' votes_cents.
THEOREM PollTotalIsSumHolds == Spec => []PollTotalIsSum
<1>1. TypeOK /\ WalletInv => PollTotalIsSum
  BY DEF WalletInv
<1> QED
  BY <1>1, WalletCorrect, PTL

\* The amount of a clawback was read before the balance moved, and a donation that
\* has one is never taken back again (the status route of routes/admin.ts).
THEOREM ClawedBackOnceHolds == Spec => []ClawedBackOnce
<1>1. Init => ClawedBackOnce
  BY DEF Init, ClawedBackOnce
<1>2. ASSUME TypeOK, WalletInv, ClawedBackOnce, [Next]_vars
      PROVE  ClawedBackOnce'
  <2>1. CASE UNCHANGED donations
    BY <1>2, <2>1 DEF ClawedBackOnce
  <2>2. ASSUME NEW x \in External, NEW d \in Donor, NEW c \in Cents, NEW s \in Shipping,
               Donate(x, d, c, s)
        PROVE  ClawedBackOnce'
    <3> SUFFICES ASSUME NEW y \in DOMAIN donations'
                 PROVE  /\ Len(donations[y].clawbacks') <= 1
                        /\ \A n \in DOMAIN donations[y].clawbacks' :
                              donations[y].clawbacks'[n] <= donations[y].cents'
      BY DEF ClawedBackOnce
    <3>1. \/ y \in DOMAIN donations /\ donations[y]' = donations[y]
          \/ donations[y].clawbacks' = << >>
      <4>1. /\ DOMAIN donations' = DOMAIN donations \cup {x}
            /\ donations[x]' =
                  [donor |-> d, cents |-> c, shipping |-> s,
                   status |-> "COMPLETED", clawbacks |-> << >>]
            /\ \A z \in DOMAIN donations : donations[z]' = donations[z]
        BY <1>2, <2>2, DonateAdds
      <4>2. donations[x].clawbacks' = << >>
        BY <4>1
      <4> QED
        BY <4>1, <4>2
    <3> QED
      BY <1>2, <3>1, EmptySeq DEF ClawedBackOnce
  <2>3. ASSUME NEW x \in DOMAIN donations,
               NEW st \in {"PENDING", "COMPLETED", "REFUNDED", "CHARGEBACK"}, SetStatus(x, st)
        PROVE  ClawedBackOnce'
    <3> SUFFICES ASSUME NEW y \in DOMAIN donations'
                 PROVE  /\ Len(donations[y].clawbacks') <= 1
                        /\ \A n \in DOMAIN donations[y].clawbacks' :
                              donations[y].clawbacks'[n] <= donations[y].cents'
      BY DEF ClawedBackOnce
    <3>1. y \in DOMAIN donations /\ donations[y].cents' = donations[y].cents
      BY <1>2, <2>3, StatusChanges
    <3>2. \/ donations[y]' = donations[y]
          \/ donations[y].clawbacks' = << >>
          \/ \E n \in Int : n <= donations[y].cents /\ donations[y].clawbacks' = <<n>>
      BY <1>2, <2>3, <3>1, StatusChanges
    <3>3. CASE donations[y]' = donations[y]
      BY <1>2, <3>1, <3>3 DEF ClawedBackOnce
    <3>4. CASE donations[y].clawbacks' = << >>
      BY <3>4
    <3>5. ASSUME NEW n \in Int, n <= donations[y].cents, donations[y].clawbacks' = <<n>>
          PROVE  /\ Len(donations[y].clawbacks') <= 1
                 /\ \A m \in DOMAIN donations[y].clawbacks' :
                       donations[y].clawbacks'[m] <= donations[y].cents'
      BY <3>1, <3>5
    <3> QED
      BY <3>2, <3>3, <3>4, <3>5
  <2>4. \/ UNCHANGED donations
        \/ \E x \in External, d \in Donor, c \in Cents, s \in Shipping : Donate(x, d, c, s)
        \/ \E x \in DOMAIN donations, st \in {"PENDING", "COMPLETED", "REFUNDED", "CHARGEBACK"} :
              SetStatus(x, st)
    <3>1. CASE DonorStep
      BY <3>1 DEF DonorStep, Claim, Vote, Propose, Contribute
    <3>2. CASE StaffStep
      BY <3>2 DEF StaffStep, Reprice, SetClaim, RefundOption, RefundGoal
    <3>3. CASE \E r \in Staff : RequestStep(r)
      BY <3>3 DEF RequestStep, AdjustRead, AdjustWrite, SweepRead, SweepWrite, ReverseRead,
            ReverseSeen, ReverseClaim, ReverseVote, ReverseContribution, ModerateRead,
            FindVote, Approve, Refuse, Starts
    <3>4. CASE UNCHANGED vars
      BY <3>4 DEF vars
    <3> QED
      BY <1>2, <3>1, <3>2, <3>3, <3>4 DEF Next
  <2> QED
    BY <2>1, <2>2, <2>3, <2>4
<1>3. TypeOK /\ WalletInv /\ ClawedBackOnce /\ [Next]_vars => ClawedBackOnce'
  BY <1>2
<1> QED
  BY <1>1, <1>3, WalletCorrect, PTL DEF Spec
=============================================================================
