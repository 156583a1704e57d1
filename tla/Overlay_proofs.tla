----------------------------- MODULE Overlay_proofs -----------------------------
(***************************************************************************)
(* Proofs about Overlay for every set of donations, Channels and Events,   *)
(* every amount, and every number of changes and of messages that wait.    *)
(***************************************************************************)
EXTENDS Overlay, SumTheorems, SequenceTheorems, TLAPS

-----------------------------------------------------------------------------
(* Queues of messages.                                                     *)

\* News that are put behind a queue say what they said; the rest stays as it was.
LEMMA BehindSilent ==
    ASSUME NEW q \in Seq(Messages), NEW r \in Seq(Messages), NEW kind, NEW x,
           Silent(r, kind, x)
    PROVE  /\ Silent(q, kind, x) => Silent(q \o r, kind, x)
           /\ \A m : Ends(q, kind, x, m) => Ends(q \o r, kind, x, m)
<1>1. /\ Len(q) \in Nat /\ Len(r) \in Nat /\ Len(q \o r) = Len(q) + Len(r)
      /\ q \o r \in Seq(Messages)
  BY ConcatProperties
<1>2. \A i \in DOMAIN (q \o r) :
         \/ i \in DOMAIN q /\ (q \o r)[i] = q[i]
         \/ i > Len(q) /\ i - Len(q) \in DOMAIN r /\ (q \o r)[i] = r[i - Len(q)]
  BY <1>1, ConcatProperties
<1>3. \A i \in DOMAIN q : i \in DOMAIN (q \o r) /\ (q \o r)[i] = q[i]
  BY <1>1, ConcatProperties
<1>4. Silent(q, kind, x) => Silent(q \o r, kind, x)
  BY <1>2 DEF Silent
<1>5. ASSUME NEW m, Ends(q, kind, x, m) PROVE Ends(q \o r, kind, x, m)
  <2>1. PICK i \in DOMAIN q :
           q[i] = m /\ \A j \in DOMAIN q : j > i => ~About(q[j], kind, x)
    BY <1>5 DEF Ends
  <2>2. i \in DOMAIN (q \o r) /\ (q \o r)[i] = m
    BY <1>3, <2>1
  <2>3. ASSUME NEW j \in DOMAIN (q \o r), j > i PROVE ~About((q \o r)[j], kind, x)
    BY <1>2, <2>1, <2>3 DEF Silent
  <2> QED
    BY <2>2, <2>3 DEF Ends
<1> QED
  BY <1>4, <1>5

LEMMA BehindEnds ==
    ASSUME NEW q \in Seq(Messages), NEW r \in Seq(Messages), NEW kind, NEW x, NEW m,
           Ends(r, kind, x, m)
    PROVE  Ends(q \o r, kind, x, m)
<1>1. /\ Len(q) \in Nat /\ Len(r) \in Nat /\ Len(q \o r) = Len(q) + Len(r)
      /\ q \o r \in Seq(Messages)
  BY ConcatProperties
<1>2. PICK i \in DOMAIN r : r[i] = m /\ \A j \in DOMAIN r : j > i => ~About(r[j], kind, x)
  BY DEF Ends
<1>3. PICK n \in Nat : n = Len(q)
  BY <1>1
<1>4. i \in 1..Len(r) /\ DOMAIN (q \o r) = 1..(n + Len(r))
  BY <1>1, <1>3
<1>5. n + i \in DOMAIN (q \o r) /\ (q \o r)[n + i] = m
  BY <1>1, <1>2, <1>3, <1>4, ConcatProperties
<1>6. ASSUME NEW j \in DOMAIN (q \o r), j > n + i PROVE ~About((q \o r)[j], kind, x)
  <2>1. j - n \in DOMAIN r /\ j - n > i /\ (q \o r)[j] = r[j - n]
    BY <1>1, <1>3, <1>4, <1>6, ConcatProperties
  <2> QED
    BY <1>2, <2>1
<1> QED
  BY <1>5, <1>6 DEF Ends

\* The head of a queue goes, or stays to come again.
LEMMA TailIs ==
    ASSUME NEW q \in Seq(Messages), q # << >>, NEW kind, NEW x
    PROVE  /\ Silent(q, kind, x) => Silent(Tail(q), kind, x) /\ ~About(Head(q), kind, x)
           /\ \A m : Ends(q, kind, x, m) =>
                 \/ Ends(Tail(q), kind, x, m)
                 \/ Head(q) = m /\ Silent(Tail(q), kind, x)
<1>1. /\ Tail(q) \in Seq(Messages) /\ Head(q) = q[1] /\ Len(q) \in Nat \ {0}
      /\ Len(Tail(q)) = Len(q) - 1 /\ DOMAIN q = 1..Len(q)
      /\ \A i \in 1..Len(Tail(q)) : Tail(q)[i] = q[i + 1]
  BY HeadTailProperties
<1>2. PICK n \in Nat : n = Len(q) /\ n # 0
  BY <1>1
<1>3. DOMAIN q = 1..n /\ DOMAIN Tail(q) = 1..(n - 1) /\ 1 \in DOMAIN q
  BY <1>1, <1>2
<1>4. \A i \in DOMAIN Tail(q) : i + 1 \in DOMAIN q /\ Tail(q)[i] = q[i + 1]
  BY <1>1, <1>2, <1>3
<1>5. Silent(q, kind, x) => Silent(Tail(q), kind, x) /\ ~About(Head(q), kind, x)
  BY <1>1, <1>3, <1>4 DEF Silent
<1>6. ASSUME NEW m, Ends(q, kind, x, m)
      PROVE  \/ Ends(Tail(q), kind, x, m)
             \/ Head(q) = m /\ Silent(Tail(q), kind, x)
  <2>1. PICK i \in DOMAIN q :
           q[i] = m /\ \A j \in DOMAIN q : j > i => ~About(q[j], kind, x)
    BY <1>6 DEF Ends
  <2>2. i \in 1..n
    BY <1>3
  <2>3. CASE i = 1
    <3>1. \A j \in DOMAIN Tail(q) : j + 1 > i
      BY <1>3, <2>3
    <3> QED
      BY <1>1, <1>4, <2>1, <2>3, <3>1 DEF Silent
  <2>4. CASE i # 1
    <3>1. i - 1 \in DOMAIN Tail(q) /\ Tail(q)[i - 1] = m
      BY <1>3, <1>4, <2>1, <2>2, <2>4
    <3>2. \A j \in DOMAIN Tail(q) : j > i - 1 => j + 1 > i
      BY <1>3, <2>2
    <3> QED
      BY <1>4, <2>1, <3>1, <3>2 DEF Ends
  <2> QED
    BY <2>3, <2>4
<1> QED
  BY <1>5, <1>6

LEMMA ThreeNews ==
    ASSUME NEW t \in Messages, NEW f \in Messages, NEW g \in Messages
    PROVE  <<t>> \o <<f, g>> = <<t, f, g>>
<1>1. PICK a, b, q : a = <<t>> /\ b = <<f, g>> /\ q = <<t, f, g>>
  OBVIOUS
<1>2. /\ a \in Seq(Messages) /\ b \in Seq(Messages) /\ q \in Seq(Messages)
      /\ Len(a) = 1 /\ Len(b) = 2 /\ Len(q) = 3
      /\ a[1] = t /\ b[1] = f /\ b[2] = g /\ q[1] = t /\ q[2] = f /\ q[3] = g
  BY <1>1
<1>3. /\ a \o b \in Seq(Messages) /\ Len(a \o b) = Len(a) + Len(b)
      /\ \A i \in 1..(Len(a) + Len(b)) :
            (a \o b)[i] = IF i <= Len(a) THEN a[i] ELSE b[i - Len(a)]
  <2>1. a \in Seq(Messages) /\ b \in Seq(Messages)
    BY <1>2
  <2> QED
    BY <2>1, ConcatProperties, Zenon
<1>4. Len(a \o b) = 3 /\ (a \o b)[1] = t /\ (a \o b)[2] = f /\ (a \o b)[3] = g
  BY <1>2, <1>3
<1>5. \A i \in 1..3 : (a \o b)[i] = q[i]
  BY <1>2, <1>4
<1>6. a \o b = q
  BY <1>2, <1>3, <1>4, <1>5, SeqEqual
<1> QED
  BY <1>1, <1>6

\* What is queued with a donation that is routed.
LEMMA RoutedNews ==
    ASSUME NEW d, NEW c, NEW e, c # e,
           NEW t \in Messages, t.kind = "donation", t.id = d,
           NEW f \in Messages, f.kind = "fact", f.id = c,
           NEW g \in Messages, g.kind = "fact", g.id = e
    PROVE  /\ <<t, f, g>> \in Seq(Messages)
           /\ Ends(<<t, f, g>>, "donation", d, t)
           /\ Ends(<<t, f, g>>, "fact", c, f) /\ Ends(<<t, f, g>>, "fact", e, g)
           /\ \A x : x # d => Silent(<<t, f, g>>, "donation", x)
           /\ \A x : x # c /\ x # e => Silent(<<t, f, g>>, "fact", x)
<1>1. PICK q : q = <<t, f, g>>
  OBVIOUS
<1>2. DOMAIN q = {1, 2, 3} /\ q[1] = t /\ q[2] = f /\ q[3] = g /\ q \in Seq(Messages)
  BY <1>1
<1>3. Ends(q, "donation", d, t)
  BY <1>2 DEF Ends, About
<1>4. Ends(q, "fact", c, f)
  BY <1>2 DEF Ends, About
<1>5. Ends(q, "fact", e, g)
  BY <1>2 DEF Ends, About
<1>6. \A x : x # d => Silent(q, "donation", x)
  BY <1>2 DEF Silent, About
<1>7. \A x : x # c /\ x # e => Silent(q, "fact", x)
  BY <1>2 DEF Silent, About
<1> QED
  BY <1>1, <1>2, <1>3, <1>4, <1>5, <1>6, <1>7

\* With a change of status.
LEMMA TotalsNews ==
    ASSUME NEW c, NEW e, c # e,
           NEW f \in Messages, f.kind = "fact", f.id = c,
           NEW g \in Messages, g.kind = "fact", g.id = e
    PROVE  /\ <<f, g>> \in Seq(Messages)
           /\ Ends(<<f, g>>, "fact", c, f) /\ Ends(<<f, g>>, "fact", e, g)
           /\ \A x : Silent(<<f, g>>, "donation", x)
           /\ \A x : x # c /\ x # e => Silent(<<f, g>>, "fact", x)
<1>1. PICK q : q = <<f, g>>
  OBVIOUS
<1>2. DOMAIN q = {1, 2} /\ q[1] = f /\ q[2] = g /\ q \in Seq(Messages)
  BY <1>1
<1>3. Ends(q, "fact", c, f)
  BY <1>2 DEF Ends, About
<1>4. Ends(q, "fact", e, g)
  BY <1>2 DEF Ends, About
<1>5. \A x : Silent(q, "donation", x)
  BY <1>2 DEF Silent, About
<1>6. \A x : x # c /\ x # e => Silent(q, "fact", x)
  BY <1>2 DEF Silent, About
<1> QED
  BY <1>1, <1>2, <1>3, <1>4, <1>5, <1>6

\* With a donation that is hidden or shown again.
LEMMA HiddenNews ==
    ASSUME NEW d, NEW t \in Messages, t.kind = "donation", t.id = d
    PROVE  /\ <<t>> \in Seq(Messages)
           /\ Ends(<<t>>, "donation", d, t)
           /\ \A x : x # d => Silent(<<t>>, "donation", x)
           /\ \A x : Silent(<<t>>, "fact", x)
<1>1. PICK q : q = <<t>>
  OBVIOUS
<1>2. DOMAIN q = {1} /\ q[1] = t /\ q \in Seq(Messages)
  BY <1>1
<1>3. Ends(q, "donation", d, t)
  BY <1>2 DEF Ends, About
<1>4. \A x : x # d => Silent(q, "donation", x)
  BY <1>2 DEF Silent, About
<1>5. \A x : Silent(q, "fact", x)
  BY <1>2 DEF Silent, About
<1> QED
  BY <1>1, <1>2, <1>3, <1>4, <1>5

\* What is queued while the Destination is active, and noted while it is paused.
LEMMA QueueIs ==
    ASSUME NEW msgs \in Seq(Messages), NEW subjects, queue \in Seq(Messages),
           Queue(msgs, subjects)
    PROVE  /\ queue' \in Seq(Messages)
           /\ \A x : x \notin subjects => (x \in missed' <=> x \in missed)
           /\ \A x : x \in missed' => x \in missed \/ x \in subjects
           /\ \A kind, x : Silent(msgs, kind, x) =>
                 /\ Silent(queue, kind, x) => Silent(queue', kind, x)
                 /\ \A m : Ends(queue, kind, x, m) => Ends(queue', kind, x, m)
           /\ \A kind, x, m : Ends(msgs, kind, x, m) /\ x \in subjects /\ x \notin missed'
                 => Ends(queue', kind, x, m)
           /\ active => \A kind, x, m : Ends(msgs, kind, x, m) => Ends(queue', kind, x, m)
           /\ ~active => queue' = queue
<1>1. CASE active
  <2>1. queue' = queue \o msgs /\ missed' = missed \ subjects
    BY <1>1 DEF Queue
  <2>2. queue \o msgs \in Seq(Messages)
    BY ConcatProperties
  <2>3. \A kind, x : Silent(msgs, kind, x) =>
           /\ Silent(queue, kind, x) => Silent(queue \o msgs, kind, x)
           /\ \A m : Ends(queue, kind, x, m) => Ends(queue \o msgs, kind, x, m)
    BY BehindSilent
  <2>4. \A kind, x, m : Ends(msgs, kind, x, m) => Ends(queue \o msgs, kind, x, m)
    BY BehindEnds
  <2>5. \A kind, x, m : Ends(msgs, kind, x, m) => Ends(queue', kind, x, m)
    BY <2>1, <2>4
  <2>6. \A kind, x : Silent(msgs, kind, x) =>
           /\ Silent(queue, kind, x) => Silent(queue', kind, x)
           /\ \A m : Ends(queue, kind, x, m) => Ends(queue', kind, x, m)
    BY <2>1, <2>3
  <2>7. queue' \in Seq(Messages)
    BY <2>1, <2>2
  <2> QED
    BY <1>1, <2>1, <2>5, <2>6, <2>7
<1>2. CASE ~active
  BY <1>2 DEF Queue
<1> QED
  BY <1>1, <1>2

-----------------------------------------------------------------------------
(* What the messages say.                                                  *)

LEMMA RaisedIs ==
    ASSUME NEW x
    PROVE  Raised(x) = Total(Gifts(x), Amount) /\ Raised(x)' = Total(Gifts(x)', Amount)
<1>1. \A S : Money(S) = Total(S, Amount)
  BY DEF Money, Total
<1> QED
  BY <1>1 DEF Raised

LEMMA RaisedKept ==
    ASSUME NEW x, \A d \in Donation : Gives(d, x)' <=> Gives(d, x)
    PROVE  Raised(x)' = Raised(x) /\ Fact(x)' = Fact(x)
<1>1. Gifts(x)' = Gifts(x)
  BY DEF Gifts
<1>2. Raised(x)' = Raised(x)
  BY <1>1, RaisedIs
<1> QED
  BY <1>2 DEF Fact

\* Of finitely many rows.
LEMMA SumOfRows ==
    ASSUME NEW S, IsFiniteSet(S), NEW T \in SUBSET S, S \subseteq Donation
    PROVE  Total(T, Amount) \in Nat
<1>1. IsFiniteSet(T)
  BY FS_Subset
<1>2. \A d \in T : Amount[d] \in Nat
  BY ConstantsAssumption
<1> QED
  BY <1>1, <1>2, TotalNat

Rows == {d \in Donation : status[d] # "NONE"}

LEMMA RaisedType ==
    ASSUME NEW x
    PROVE  /\ IsFiniteSet(Rows) => Raised(x) \in Nat
           /\ IsFiniteSet(Rows)' => Raised(x)' \in Nat
<1>1. Gifts(x) \in SUBSET Rows /\ Gifts(x)' \in SUBSET Rows'
  BY DEF Gifts, Gives, Counts, Rows
<1>2. Rows \subseteq Donation /\ Rows' \subseteq Donation
  BY DEF Rows
<1>3. ASSUME IsFiniteSet(Rows) PROVE Raised(x) \in Nat
  BY <1>1, <1>2, <1>3, SumOfRows, RaisedIs
<1>4. ASSUME IsFiniteSet(Rows') PROVE Raised(x)' \in Nat
  <2>1. PICK S, T : S = Rows' /\ T = Gifts(x)'
    OBVIOUS
  <2>2. Total(T, Amount) \in Nat
    BY <1>1, <1>2, <1>4, <2>1, SumOfRows
  <2> QED
    BY <2>1, <2>2, RaisedIs
<1> QED
  BY <1>3, <1>4

LEMMA FactIs ==
    ASSUME NEW x \in Campaign
    PROVE  /\ Fact(x).kind = "fact" /\ Fact(x).id = x /\ Fact(x).cents = Raised(x)
           /\ IsFiniteSet(Rows) => Fact(x) \in Messages
           /\ Fact(x)'.kind = "fact" /\ Fact(x)'.id = x
           /\ IsFiniteSet(Rows)' => Fact(x)' \in Messages
BY RaisedType DEF Fact, Messages

-----------------------------------------------------------------------------
(* Steps.                                                                  *)

\* Nothing that the queue says of x is lost or comes back.
Carried(kind, x) ==
    /\ Silent(queue, kind, x) => Silent(queue', kind, x)
    /\ \A m : Ends(queue, kind, x, m) => Ends(queue', kind, x, m)

SameRow(d) ==
    /\ channel[d]' = channel[d] /\ event[d]' = event[d]
    /\ hidden[d]' = hidden[d] /\ named[d]' = named[d]

LEMMA DonationKept ==
    ASSUME NEW d, DonationNews(d), SameRow(d), d \in shown' <=> d \in shown,
           Carried("donation", d)
    PROVE  DonationNews(d)'
<1>1. TiltifyDonation(d)' = TiltifyDonation(d)
  BY DEF SameRow, TiltifyDonation
<1>2. ShownInStep(d)' <=> ShownInStep(d)
  BY DEF SameRow, ShownInStep, Published
<1>3. CASE \E m \in Range(TiltifyDonation(d)) : Ends(queue, "donation", d, m)
  <2>1. PICK m \in Range(TiltifyDonation(d)) : Ends(queue, "donation", d, m)
    BY <1>3
  <2>2. Ends(queue', "donation", d, m)
    BY <2>1 DEF Carried
  <2>3. m \in Range(TiltifyDonation(d))'
    BY <1>1, <2>1
  <2> QED
    BY <2>2, <2>3 DEF DonationNews
<1>4. CASE Silent(queue, "donation", d) /\ ShownInStep(d)
  BY <1>2, <1>4 DEF DonationNews, Carried
<1> QED
  BY <1>3, <1>4 DEF DonationNews

LEMMA TotalKept ==
    ASSUME NEW x, TotalNews(x), Raised(x)' = Raised(x), total[x]' = total[x],
           Carried("fact", x)
    PROVE  TotalNews(x)'
<1>1. PICK m : m = Fact(x)
  OBVIOUS
<1>2. Fact(x)' = m
  BY <1>1 DEF Fact
<1> QED
  BY <1>1, <1>2 DEF TotalNews, Carried

\* The news of a donation that is routed, as the transaction reads it back.
LEMMA TiltifyIs ==
    ASSUME NEW d \in Donation, channel[d] # None,
           hidden \in [Donation -> BOOLEAN], named \in [Donation -> BOOLEAN]
    PROVE  \E t \in Messages : t.kind = "donation" /\ t.id = d /\ TiltifyDonation(d) = <<t>>
<1>1. PICK t : t = [kind |-> "donation", id |-> d, named |-> named[d] /\ ~hidden[d],
                    completed |-> ~hidden[d]]
  OBVIOUS
<1>2. (named[d] /\ ~hidden[d]) \in BOOLEAN /\ (~hidden[d]) \in BOOLEAN
  OBVIOUS
<1>3. t \in Messages
  BY <1>1, <1>2 DEF Messages
<1> QED
  BY <1>1, <1>3 DEF TiltifyDonation

LEMMA TiltifyWas ==
    ASSUME NEW d \in Donation, channel'[d] # None,
           hidden' \in [Donation -> BOOLEAN], named' \in [Donation -> BOOLEAN]
    PROVE  \E t \in Messages : t.kind = "donation" /\ t.id = d /\ TiltifyDonation(d)' = <<t>>
<1>1. PICK t : t = [kind |-> "donation", id |-> d, named |-> named'[d] /\ ~hidden'[d],
                    completed |-> ~hidden'[d]]
  OBVIOUS
<1>2. (named'[d] /\ ~hidden'[d]) \in BOOLEAN /\ (~hidden'[d]) \in BOOLEAN
  OBVIOUS
<1>3. t \in Messages
  BY <1>1, <1>2 DEF Messages
<1> QED
  BY <1>1, <1>3 DEF TiltifyDonation

\* News of d that end the queue are its news.
LEMMA DonationTold ==
    ASSUME NEW d, NEW t, TiltifyDonation(d)' = <<t>>, Ends(queue', "donation", d, t)
    PROVE  DonationNews(d)'
<1>1. t \in Range(<<t>>)
  BY DEF Range
<1>2. t \in Range(TiltifyDonation(d))'
  BY <1>1
<1> QED
  BY <1>2 DEF DonationNews

LEMMA TotalTold ==
    ASSUME NEW x, NEW f, Fact(x)' = f, Ends(queue', "fact", x, f)
    PROVE  TotalNews(x)'
BY DEF TotalNews

-----------------------------------------------------------------------------
(* The native messages.                                                    *)

NativeOK(d) ==
    /\ Published(d) <=> native[d] # << >>
    /\ Published(d) => (Last(native[d]) = "hidden" <=> hidden[d])
    /\ \A i \in 1..(Len(native[d]) - 1) : native[d][i] # native[d][i + 1]

Told(s) == s \in Seq({"shown", "hidden"}) /\ \A i \in 1..(Len(s) - 1) : s[i] # s[i + 1]

LEMMA TellOnce ==
    ASSUME NEW s, Told(s), NEW w \in {"shown", "hidden"}, s # << >> => Last(s) # w
    PROVE  Told(Append(s, w)) /\ Last(Append(s, w)) = w /\ Append(s, w) # << >>
<1>1. /\ Append(s, w) \in Seq({"shown", "hidden"}) /\ Len(Append(s, w)) = Len(s) + 1
      /\ \A i \in 1..Len(s) : Append(s, w)[i] = s[i]
      /\ Append(s, w)[Len(s) + 1] = w /\ Len(s) \in Nat
  BY AppendProperties DEF Told
<1>2. Last(Append(s, w)) = w /\ Append(s, w) # << >>
  <2>1. PICK r : r = Append(s, w)
    OBVIOUS
  <2>2. Len(r) = Len(s) + 1 /\ r[Len(s) + 1] = w /\ Len(s) \in Nat
    BY <1>1, <2>1
  <2>3. Last(r) = w
    BY <2>2 DEF Last
  <2>4. r # << >>
    BY <2>2
  <2> QED
    BY <2>1, <2>3, <2>4
<1>3. ASSUME NEW i \in 1..(Len(Append(s, w)) - 1)
      PROVE  Append(s, w)[i] # Append(s, w)[i + 1]
  <2>1. i \in 1..Len(s)
    BY <1>1
  <2>2. CASE i = Len(s)
    <3>1. s # << >> /\ Last(s) = s[i]
      BY <1>1, <2>1, <2>2 DEF Last, Told
    <3> QED
      BY <1>1, <2>1, <2>2, <3>1
  <2>3. CASE i # Len(s)
    <3>1. i \in 1..(Len(s) - 1) /\ i + 1 \in 1..Len(s)
      BY <1>1, <2>1, <2>3
    <3> QED
      BY <1>1, <2>1, <3>1 DEF Told
  <2> QED
    BY <2>2, <2>3
<1> QED
  BY <1>1, <1>2, <1>3 DEF Told

-----------------------------------------------------------------------------
(* A donation is routed.                                                   *)

RouteOK(d) ==
    /\ channel[d] = None <=> event[d] = None
    /\ status[d] = "NONE" => channel[d] = None
    /\ channel[d] # None => event[d] \in left \cup {eventOf[channel[d]]}
    /\ channel[d] = None => Silent(queue, "donation", d) /\ d \notin shown

Inv == TypeOK /\ RouteInv /\ NewsInv /\ NativeInStep
OverlayInv == /\ \A d \in Donation : RouteOK(d) /\ NativeOK(d)
              /\ \A d \in Donation \ missed : DonationNews(d)
              /\ \A x \in Campaign \ (missed \cup left) : TotalNews(x)

LEMMA InvIs == RouteInv /\ NewsInv /\ NativeInStep <=> OverlayInv
BY DEF RouteInv, NewsInv, NativeInStep, OverlayInv, RouteOK, NativeOK

\* Channels and Events are told apart from each other and from donations.
LEMMA NamesDiffer ==
    /\ None \notin Campaign
    /\ \A c \in Channel, e \in Event : c # e /\ c \in Campaign /\ e \in Campaign
    /\ \A d \in Donation, x \in Campaign : d # x
BY ConstantsAssumption DEF Campaign

Routed(d, c) ==
    /\ channel[d] = None /\ Route(d, c) /\ PublishRouted(d)
    /\ status' \in [Donation -> Status \cup {"NONE"}] /\ status'[d] # "NONE"
    /\ named' \in [Donation -> BOOLEAN]
    /\ \A z \in Donation \ {d} : status'[z] = status[z] /\ named'[z] = named[z]
    /\ UNCHANGED <<hidden, refunded, eventOf, left, shown, total, active, changes>>

\* Two messages about totals and one about the donation.
LEMMA RoutedQueue ==
    ASSUME TypeOK, NEW d \in Donation, NEW c \in Channel, Routed(d, c)
    PROVE  \E t \in Messages, f \in Messages, g \in Messages, e \in Event :
              /\ t.kind = "donation" /\ t.id = d /\ TiltifyDonation(d)' = <<t>>
              /\ f.kind = "fact" /\ f.id = c /\ Fact(c)' = f
              /\ g.kind = "fact" /\ g.id = e /\ Fact(e)' = g
              /\ e = eventOf[c]
              /\ channel' = [channel EXCEPT ![d] = c] /\ event' = [event EXCEPT ![d] = e]
              /\ Queue(<<t, f, g>>, {d, c, e})
<1>1. /\ channel \in [Donation -> Channel \cup {None}] /\ event \in [Donation -> Event \cup {None}]
      /\ hidden \in [Donation -> BOOLEAN] /\ eventOf \in [Channel -> Event]
  BY DEF TypeOK
<1>2. PICK e \in Event : e = eventOf[c]
  BY <1>1
<1>3. channel' = [channel EXCEPT ![d] = c] /\ event' = [event EXCEPT ![d] = e]
  BY <1>2 DEF Routed, Route
<1>4. channel'[d] = c /\ event'[d] = e /\ eventOf'[c] = e
  BY <1>1, <1>2, <1>3 DEF Routed
<1>5. hidden' \in [Donation -> BOOLEAN] /\ named' \in [Donation -> BOOLEAN] /\ c # None
  BY <1>1, ConstantsAssumption DEF Routed
<1>6. PICK t \in Messages : t.kind = "donation" /\ t.id = d /\ TiltifyDonation(d)' = <<t>>
  BY <1>4, <1>5, TiltifyWas
<1>7. IsFiniteSet(Rows)'
  <2>1. Rows' \subseteq Rows \cup {d}
    BY DEF Rows, Routed
  <2>2. IsFiniteSet(Rows \cup {d})
    BY FS_AddElement DEF TypeOK, Rows
  <2> QED
    BY <2>1, <2>2, FS_Subset
<1>8. PICK f \in Messages, g \in Messages :
         f = Fact(c)' /\ g = Fact(e)' /\ f.kind = "fact" /\ f.id = c /\ g.kind = "fact" /\ g.id = e
  BY <1>7, FactIs, NamesDiffer
<1>9. TiltifyTotals(channel[d])' = <<f, g>>
  <2>1. Gifts(channel[d])' = Gifts(c)' /\ Gifts(eventOf[channel[d]])' = Gifts(e)'
    BY <1>4 DEF Gifts, Gives
  <2>2. Raised(channel[d])' = Raised(c)' /\ Raised(eventOf[channel[d]])' = Raised(e)'
    BY <2>1 DEF Raised
  <2>3. Fact(channel[d])' = f /\ Fact(eventOf[channel[d]])' = g
    BY <1>4, <1>8, <2>2 DEF Fact
  <2> QED
    BY <1>4, <1>5, <2>3 DEF TiltifyTotals
<1>10. (TiltifyDonation(d) \o TiltifyTotals(channel[d]))' = <<t, f, g>>
  <2>1. <<t>> \o <<f, g>> = <<t, f, g>>
    BY ThreeNews
  <2> QED
    BY <1>6, <1>9, <2>1
<1>11. Queue(<<t, f, g>>, {d, c, e})
  BY <1>4, <1>10 DEF Routed, PublishRouted
<1> QED
  BY <1>2, <1>3, <1>6, <1>8, <1>11

StepOK == TypeOK' /\ OverlayInv'

\* A native message that says what the last one did not.
LEMMA TellKeeps ==
    ASSUME TypeOK, \A z \in Donation : NativeOK(z), NEW d \in Donation,
           NEW w \in {"shown", "hidden"}, Tell(d, w),
           Published(d) => Last(native[d]) # w,
           Published(d)', hidden'[d] <=> w = "hidden",
           \A z \in Donation \ {d} :
              channel'[z] = channel[z] /\ event'[z] = event[z] /\ hidden'[z] = hidden[z]
    PROVE  /\ native' \in [Donation -> Seq({"shown", "hidden"})]
           /\ \A z \in Donation : NativeOK(z)'
<1>1. native \in [Donation -> Seq({"shown", "hidden"})]
  BY DEF TypeOK
<1>2. PICK s : s = native[d]
  OBVIOUS
<1>3. native' = [native EXCEPT ![d] = Append(s, w)]
  BY <1>2 DEF Tell
<1>4. Told(s) /\ (s # << >> => Last(s) # w)
  BY <1>1, <1>2 DEF Told, NativeOK
<1>5. Told(Append(s, w)) /\ Last(Append(s, w)) = w /\ Append(s, w) # << >>
  BY <1>4, TellOnce
<1>6. PICK r : r = Append(s, w)
  OBVIOUS
<1>7. Told(r) /\ Last(r) = w /\ r # << >> /\ native' = [native EXCEPT ![d] = r]
  BY <1>3, <1>5, <1>6
<1>8. native' \in [Donation -> Seq({"shown", "hidden"})]
  BY <1>1, <1>7 DEF Told
<1>9. NativeOK(d)'
  <2>1. native'[d] = r
    BY <1>1, <1>7
  <2> QED
    BY <1>7, <2>1 DEF NativeOK, Told
<1>10. ASSUME NEW z \in Donation \ {d} PROVE NativeOK(z)'
  <2>1. native'[z] = native[z]
    BY <1>1, <1>7
  <2> QED
    BY <2>1 DEF NativeOK, Published
<1> QED
  BY <1>8, <1>9, <1>10

LEMMA RoutedStep ==
    ASSUME TypeOK, OverlayInv, NEW d \in Donation, NEW c \in Channel, Routed(d, c)
    PROVE  StepOK
<1>1. /\ status \in [Donation -> Status \cup {"NONE"}]
      /\ channel \in [Donation -> Channel \cup {None}] /\ event \in [Donation -> Event \cup {None}]
      /\ hidden \in [Donation -> BOOLEAN] /\ eventOf \in [Channel -> Event]
      /\ queue \in Seq(Messages) /\ missed \subseteq Donation \cup Campaign
  BY DEF TypeOK
<1>2. PICK t \in Messages, f \in Messages, g \in Messages, e \in Event :
         /\ t.kind = "donation" /\ t.id = d /\ TiltifyDonation(d)' = <<t>>
         /\ f.kind = "fact" /\ f.id = c /\ Fact(c)' = f
         /\ g.kind = "fact" /\ g.id = e /\ Fact(e)' = g
         /\ e = eventOf[c]
         /\ channel' = [channel EXCEPT ![d] = c] /\ event' = [event EXCEPT ![d] = e]
         /\ Queue(<<t, f, g>>, {d, c, e})
  BY RoutedQueue
<1>3. PICK q : q = <<t, f, g>>
  OBVIOUS
<1>4. /\ c # e /\ d # c /\ d # e /\ c # None /\ e # None
      /\ c \in Campaign /\ e \in Campaign
  BY NamesDiffer
<1>5. /\ q \in Seq(Messages) /\ Queue(q, {d, c, e})
      /\ Ends(q, "donation", d, t) /\ Ends(q, "fact", c, f) /\ Ends(q, "fact", e, g)
      /\ \A x : x # d => Silent(q, "donation", x)
      /\ \A x : x # c /\ x # e => Silent(q, "fact", x)
  BY <1>2, <1>3, <1>4, RoutedNews
<1>6. /\ queue' \in Seq(Messages)
      /\ \A x : x \notin {d, c, e} => (x \in missed' <=> x \in missed)
      /\ \A x : x \in missed' => x \in missed \/ x \in {d, c, e}
      /\ \A x : x # d => Carried("donation", x)
      /\ \A x : x # c /\ x # e => Carried("fact", x)
      /\ \A kind, x, m : Ends(q, kind, x, m) /\ x \in {d, c, e} /\ x \notin missed'
            => Ends(queue', kind, x, m)
  BY <1>1, <1>5, QueueIs DEF Carried
<1>7. /\ status'[d] # "NONE" /\ status' \in [Donation -> Status \cup {"NONE"}]
      /\ named' \in [Donation -> BOOLEAN] /\ channel[d] = None
      /\ \A z \in Donation \ {d} : status'[z] = status[z] /\ named'[z] = named[z]
      /\ UNCHANGED <<hidden, refunded, eventOf, left, shown, total, active, changes>>
  BY DEF Routed
<1>8. /\ channel'[d] = c /\ event'[d] = e /\ event[d] = None /\ ~Published(d)
      /\ \A z \in Donation \ {d} : channel'[z] = channel[z] /\ event'[z] = event[z]
      /\ channel' \in [Donation -> Channel \cup {None}]
      /\ event' \in [Donation -> Event \cup {None}]
  BY <1>1, <1>2, <1>7 DEF OverlayInv, RouteOK, Published
<1>9. /\ native' \in [Donation -> Seq({"shown", "hidden"})]
      /\ \A z \in Donation : NativeOK(z)'
  <2>1. PICK w \in {"shown", "hidden"} : w = IF hidden[d] THEN "hidden" ELSE "shown"
    OBVIOUS
  <2>2. Tell(d, w)
    BY <2>1 DEF Routed, PublishRouted
  <2>3. (hidden'[d] <=> w = "hidden") /\ Published(d)'
    BY <1>4, <1>7, <1>8, <2>1 DEF Published
  <2> QED
    BY <1>7, <1>8, <2>2, <2>3, TellKeeps DEF OverlayInv
<1>10. TypeOK'
  <2>1. missed' \subseteq Donation \cup Campaign
    BY <1>1, <1>4, <1>6
  <2>2. IsFiniteSet({z \in Donation : status'[z] # "NONE"})
    <3>1. {z \in Donation : status'[z] # "NONE"} \subseteq Rows \cup {d}
      BY <1>7 DEF Rows
    <3>2. IsFiniteSet(Rows \cup {d})
      BY FS_AddElement DEF TypeOK, Rows
    <3> QED
      BY <3>1, <3>2, FS_Subset
  <2> QED
    BY <1>6, <1>7, <1>8, <1>9, <2>1, <2>2 DEF TypeOK
<1>11. ASSUME NEW z \in Donation PROVE RouteOK(z)'
  <2>1. CASE z = d
    BY <1>2, <1>4, <1>7, <1>8, <2>1 DEF RouteOK
  <2>2. CASE z # d
    <3>1. RouteOK(z) /\ Carried("donation", z)
      BY <1>6, <2>2 DEF OverlayInv
    <3> QED
      BY <1>7, <1>8, <2>2, <3>1 DEF RouteOK, Carried
  <2> QED
    BY <2>1, <2>2
<1>12. ASSUME NEW z \in Donation, z \notin missed' PROVE DonationNews(z)'
  <2>1. CASE z = d
    <3>1. Ends(queue', "donation", d, t)
      BY <1>5, <1>6, <1>12, <2>1
    <3> QED
      BY <1>2, <2>1, <3>1, DonationTold
  <2>2. CASE z # d
    <3>1. z \notin missed
      BY <1>4, <1>6, <1>12, <2>2, NamesDiffer
    <3>2. DonationNews(z) /\ Carried("donation", z)
      BY <1>6, <2>2, <3>1 DEF OverlayInv
    <3>3. SameRow(z) /\ (z \in shown' <=> z \in shown)
      BY <1>7, <1>8, <2>2 DEF SameRow
    <3> QED
      BY <3>2, <3>3, DonationKept
  <2> QED
    BY <2>1, <2>2
<1>13. ASSUME NEW x \in Campaign, x \notin missed', x \notin left' PROVE TotalNews(x)'
  <2>1. CASE x = c
    <3>1. Ends(queue', "fact", c, f)
      BY <1>5, <1>6, <1>13, <2>1
    <3> QED
      BY <1>2, <2>1, <3>1, TotalTold
  <2>2. CASE x = e
    <3>1. Ends(queue', "fact", e, g)
      BY <1>5, <1>6, <1>13, <2>2
    <3> QED
      BY <1>2, <2>2, <3>1, TotalTold
  <2>3. CASE x # c /\ x # e
    <3>1. x \notin missed /\ x \notin left
      BY <1>6, <1>7, <1>13, <2>3, NamesDiffer
    <3>2. TotalNews(x) /\ Carried("fact", x) /\ total'[x] = total[x]
      BY <1>6, <1>7, <2>3, <3>1 DEF OverlayInv
    <3>3. ASSUME NEW z \in Donation PROVE Gives(z, x)' <=> Gives(z, x)
      <4>1. x # None
        BY NamesDiffer
      <4>2. CASE z = d
        BY <1>7, <1>8, <2>3, <4>1, <4>2 DEF Gives
      <4>3. CASE z # d
        BY <1>7, <1>8, <4>3 DEF Gives
      <4> QED
        BY <4>2, <4>3
    <3>4. Raised(x)' = Raised(x)
      BY <3>3, RaisedKept
    <3> QED
      BY <3>2, <3>4, TotalKept
  <2> QED
    BY <2>1, <2>2, <2>3
<1> QED
  BY <1>9, <1>10, <1>11, <1>12, <1>13 DEF StepOK, OverlayInv

-----------------------------------------------------------------------------
(* The other steps.                                                        *)

LEMMA SameQueue ==
    ASSUME queue' = queue, NEW kind, NEW x
    PROVE  Carried(kind, x)
BY DEF Carried

\* Without a row, or without a route, a donation gives to nobody.
LEMMA UnroutedStep ==
    ASSUME TypeOK, OverlayInv, NEW d \in Donation, status[d] = "NONE",
           status' = [status EXCEPT ![d] = "COMPLETED"], named' \in [Donation -> BOOLEAN],
           \A z \in Donation \ {d} : named'[z] = named[z],
           UNCHANGED <<hidden, refunded, identity, consumer, active, changes>>,
           UNCHANGED <<channel, event, messages>>
    PROVE  StepOK
<1>1. /\ status \in [Donation -> Status \cup {"NONE"}] /\ native' = native /\ missed' = missed
      /\ UNCHANGED <<hidden, refunded, eventOf, left, shown, total, active, changes, channel,
                     event, queue>>
  BY DEF TypeOK, identity, consumer, messages
<1>2. status'[d] # "NONE" /\ \A z \in Donation \ {d} : status'[z] = status[z]
  BY <1>1
<1>3. channel[d] = None /\ event[d] = None /\ Silent(queue, "donation", d) /\ d \notin shown
  BY DEF OverlayInv, RouteOK
<1>4. TypeOK'
  <2>1. IsFiniteSet({z \in Donation : status'[z] # "NONE"})
    <3>1. {z \in Donation : status'[z] # "NONE"} \subseteq Rows \cup {d}
      BY <1>2 DEF Rows
    <3>2. IsFiniteSet(Rows \cup {d})
      BY FS_AddElement DEF TypeOK, Rows
    <3> QED
      BY <3>1, <3>2, FS_Subset
  <2>2. status' \in [Donation -> Status \cup {"NONE"}]
    BY <1>1 DEF Status
  <2> QED
    BY <1>1, <2>1, <2>2 DEF TypeOK
<1>5. ASSUME NEW z \in Donation PROVE RouteOK(z)' /\ NativeOK(z)'
  BY <1>1, <1>2, <1>3 DEF OverlayInv, RouteOK, NativeOK, Published
<1>6. ASSUME NEW z \in Donation, z \notin missed' PROVE DonationNews(z)'
  <2>1. CASE z = d
    BY <1>1, <1>3, <2>1 DEF DonationNews, ShownInStep, Published
  <2>2. CASE z # d
    <3>1. DonationNews(z) /\ SameRow(z) /\ (z \in shown' <=> z \in shown)
      BY <1>1, <1>6, <2>2 DEF OverlayInv, SameRow
    <3> QED
      BY <1>1, <3>1, SameQueue, DonationKept
  <2> QED
    BY <2>1, <2>2
<1>7. ASSUME NEW x \in Campaign, x \notin missed', x \notin left' PROVE TotalNews(x)'
  <2>1. TotalNews(x) /\ total'[x] = total[x] /\ x # None
    BY <1>1, <1>7, NamesDiffer DEF OverlayInv
  <2>2. ASSUME NEW z \in Donation PROVE Gives(z, x)' <=> Gives(z, x)
    <3>1. CASE z = d
      BY <1>1, <1>3, <2>1, <3>1 DEF Gives
    <3>2. CASE z # d
      BY <1>1, <1>2, <3>2 DEF Gives
    <3> QED
      BY <3>1, <3>2
  <2> QED
    BY <1>1, <2>1, <2>2, RaisedKept, SameQueue, TotalKept
<1> QED
  BY <1>4, <1>5, <1>6, <1>7 DEF StepOK, OverlayInv

LEMMA RecordStep ==
    ASSUME TypeOK, OverlayInv, NEW d \in Donation, Record(d)
    PROVE  StepOK
<1>1. /\ status[d] = "NONE" /\ status' = [status EXCEPT ![d] = "COMPLETED"]
      /\ UNCHANGED <<hidden, refunded, identity, consumer, active, changes>>
  BY DEF Record
<1>2. /\ status \in [Donation -> Status \cup {"NONE"}] /\ named \in [Donation -> BOOLEAN]
  BY DEF TypeOK
<1>3. named' \in [Donation -> BOOLEAN] /\ \A z \in Donation \ {d} : named'[z] = named[z]
  BY <1>2 DEF Record
<1>4. CASE \E c \in Channel : Route(d, c) /\ PublishRouted(d)
  <2>1. PICK c \in Channel : Route(d, c) /\ PublishRouted(d)
    BY <1>4
  <2>2. status' \in [Donation -> Status \cup {"NONE"}] /\ status'[d] # "NONE"
        /\ \A z \in Donation \ {d} : status'[z] = status[z]
    BY <1>1, <1>2 DEF Status
  <2>3. channel[d] = None
    BY <1>1 DEF OverlayInv, RouteOK
  <2>4. Routed(d, c)
    BY <1>1, <1>3, <2>1, <2>2, <2>3 DEF Routed, identity, consumer
  <2> QED
    BY <2>4, RoutedStep
<1>5. CASE UNCHANGED <<channel, event, messages>>
  BY <1>1, <1>3, <1>5, UnroutedStep
<1> QED
  BY <1>4, <1>5 DEF Record

LEMMA AssignStep ==
    ASSUME TypeOK, OverlayInv, NEW d \in Donation, Assign(d)
    PROVE  StepOK
<1>1. PICK c \in Channel : Route(d, c) /\ PublishRouted(d)
  BY DEF Assign
<1>2. Routed(d, c)
  BY <1>1 DEF Assign, Routed, TypeOK, identity, consumer
<1> QED
  BY <1>2, RoutedStep

LEMMA MoveChannelStep ==
    ASSUME TypeOK, OverlayInv, NEW c \in Channel, MoveChannel(c)
    PROVE  StepOK
<1>1. PICK e \in Event : eventOf' = [eventOf EXCEPT ![c] = e]
  BY DEF MoveChannel
<1>2. /\ left' = left \cup {eventOf[c]} /\ changes < MaxChanges /\ changes' = changes + 1
      /\ UNCHANGED <<status, channel, event, hidden, named, refunded, shown, total, queue,
                     native, missed, active>>
  BY DEF MoveChannel, Change, donations, consumer, messages
<1>3. eventOf \in [Channel -> Event]
  BY DEF TypeOK
<1>4. TypeOK'
  <2>1. eventOf' \in [Channel -> Event] /\ left' \subseteq Event
    BY <1>1, <1>2, <1>3 DEF TypeOK
  <2>2. changes' \in 0..MaxChanges
    BY <1>2, ConstantsAssumption DEF TypeOK
  <2> QED
    BY <1>2, <2>1, <2>2 DEF TypeOK
<1>5. ASSUME NEW z \in Donation PROVE RouteOK(z)' /\ NativeOK(z)'
  <2>1. RouteOK(z) /\ NativeOK(z) /\ channel[z] \in Channel \cup {None}
    BY DEF OverlayInv, TypeOK
  <2>2. channel[z] # None => event[z] \in left' \cup {eventOf'[channel[z]]}
    BY <1>1, <1>2, <1>3, <2>1 DEF RouteOK
  <2> QED
    BY <1>2, <2>1, <2>2 DEF RouteOK, NativeOK, Published
<1>6. ASSUME NEW z \in Donation, z \notin missed' PROVE DonationNews(z)'
  <2>1. DonationNews(z) /\ SameRow(z) /\ (z \in shown' <=> z \in shown)
    BY <1>2, <1>6 DEF OverlayInv, SameRow
  <2> QED
    BY <1>2, <2>1, SameQueue, DonationKept
<1>7. ASSUME NEW x \in Campaign, x \notin missed', x \notin left' PROVE TotalNews(x)'
  <2>1. TotalNews(x) /\ total'[x] = total[x]
    BY <1>2, <1>7 DEF OverlayInv
  <2>2. \A z \in Donation : Gives(z, x)' <=> Gives(z, x)
    BY <1>2 DEF Gives
  <2> QED
    BY <1>2, <2>1, <2>2, RaisedKept, SameQueue, TotalKept
<1> QED
  BY <1>4, <1>5, <1>6, <1>7 DEF StepOK, OverlayInv

\* The state of the Destination is in no invariant: news are judged by what is missed.
LEMMA PauseStep ==
    ASSUME TypeOK, OverlayInv, Pause \/ Resume
    PROVE  StepOK
<1>1. /\ UNCHANGED <<status, channel, event, hidden, named, refunded, eventOf, left, shown, total,
                     queue, native, missed>>
      /\ active' \in BOOLEAN
      /\ changes' = changes \/ (changes < MaxChanges /\ changes' = changes + 1)
  BY DEF Pause, Resume, Change, donations, identity, consumer, messages
<1>2. TypeOK'
  <2>1. changes' \in 0..MaxChanges
    BY <1>1, ConstantsAssumption DEF TypeOK
  <2> QED
    BY <1>1, <2>1 DEF TypeOK
<1>3. ASSUME NEW z \in Donation PROVE RouteOK(z)' /\ NativeOK(z)'
  BY <1>1 DEF OverlayInv, RouteOK, NativeOK, Published
<1>4. ASSUME NEW z \in Donation, z \notin missed' PROVE DonationNews(z)'
  <2>1. DonationNews(z) /\ SameRow(z) /\ (z \in shown' <=> z \in shown)
    BY <1>1, <1>4 DEF OverlayInv, SameRow
  <2> QED
    BY <1>1, <2>1, SameQueue, DonationKept
<1>5. ASSUME NEW x \in Campaign, x \notin missed', x \notin left' PROVE TotalNews(x)'
  <2>1. TotalNews(x) /\ total'[x] = total[x]
    BY <1>1, <1>5 DEF OverlayInv
  <2>2. \A z \in Donation : Gives(z, x)' <=> Gives(z, x)
    BY <1>1 DEF Gives
  <2> QED
    BY <1>1, <2>1, <2>2, RaisedKept, SameQueue, TotalKept
<1> QED
  BY <1>2, <1>3, <1>4, <1>5 DEF StepOK, OverlayInv

\* What a change of status announces: the Channel, and the Event it is of now.
LEMMA StatusQueue ==
    ASSUME TypeOK, NEW d \in Donation, channel[d] # None, channel' = channel,
           eventOf' = eventOf, IsFiniteSet(Rows)'
    PROVE  \E f \in Messages, g \in Messages, c \in Channel, e \in Event :
              /\ c = channel[d] /\ e = eventOf[c]
              /\ f.kind = "fact" /\ f.id = c /\ Fact(c)' = f
              /\ g.kind = "fact" /\ g.id = e /\ Fact(e)' = g
              /\ TiltifyTotals(channel[d])' = <<f, g>>
<1>1. PICK c \in Channel, e \in Event : c = channel[d] /\ e = eventOf[c]
  BY DEF TypeOK
<1>2. channel'[d] = c /\ eventOf'[c] = e /\ c # None
  BY <1>1
<1>3. PICK f \in Messages, g \in Messages :
         f = Fact(c)' /\ g = Fact(e)' /\ f.kind = "fact" /\ f.id = c /\ g.kind = "fact" /\ g.id = e
  BY FactIs, NamesDiffer
<1>4. TiltifyTotals(channel[d])' = <<f, g>>
  <2>1. Gifts(channel[d])' = Gifts(c)' /\ Gifts(eventOf[channel[d]])' = Gifts(e)'
    BY <1>2 DEF Gifts, Gives
  <2>2. Raised(channel[d])' = Raised(c)' /\ Raised(eventOf[channel[d]])' = Raised(e)'
    BY <2>1 DEF Raised
  <2>3. Fact(channel[d])' = f /\ Fact(eventOf[channel[d]])' = g
    BY <1>2, <1>3, <2>2 DEF Fact
  <2> QED
    BY <1>2, <2>3 DEF TiltifyTotals
<1> QED
  BY <1>1, <1>3, <1>4

\* The totals that a status moves are those that are announced, but for an Event that
\* the Channel has left.
LEMMA TotalsMove ==
    ASSUME TypeOK, OverlayInv, NEW d \in Donation, channel' = channel, event' = event,
           eventOf' = eventOf, total' = total, left' = left, IsFiniteSet(Rows)',
           \A z \in Donation \ {d} : status'[z] = status[z],
           Queue(TiltifyTotals(channel[d])', {channel[d], event[d]} \ {None})
    PROVE  /\ queue' \in Seq(Messages) /\ missed' \subseteq Donation \cup Campaign
           /\ \A z : Carried("donation", z)
           /\ \A z \in Donation : z \in missed' <=> z \in missed
           /\ \A x \in Campaign \ (missed' \cup left') : TotalNews(x)'
<1>1. /\ channel \in [Donation -> Channel \cup {None}] /\ event \in [Donation -> Event \cup {None}]
      /\ queue \in Seq(Messages) /\ missed \subseteq Donation \cup Campaign
  BY DEF TypeOK
<1>2. RouteOK(d)
  BY DEF OverlayInv
<1>3. ASSUME NEW x \in Campaign, x \notin {channel[d], event[d]}, x \notin missed, x \notin left,
             Carried("fact", x)
      PROVE  TotalNews(x)'
  <2>1. ASSUME NEW z \in Donation PROVE Gives(z, x)' <=> Gives(z, x)
    BY <1>3 DEF Gives
  <2>2. TotalNews(x) /\ total'[x] = total[x]
    BY <1>3 DEF OverlayInv
  <2> QED
    BY <1>3, <2>1, <2>2, RaisedKept, TotalKept
<1>4. CASE channel[d] = None
  <2>1. event[d] = None /\ TiltifyTotals(channel[d])' = << >>
    BY <1>2, <1>4 DEF RouteOK, TiltifyTotals
  <2>2. PICK q, S : q = << >> /\ S = {}
    OBVIOUS
  <2>3. {channel[d], event[d]} \ {None} = S
    BY <1>4, <2>1, <2>2
  <2>4. Queue(q, S)
    BY <2>1, <2>2, <2>3
  <2>5. q \in Seq(Messages) /\ \A kind, x : Silent(q, kind, x)
    BY <2>2, EmptySeq DEF Silent
  <2>6. /\ queue' \in Seq(Messages)
        /\ \A x : x \in missed' <=> x \in missed
        /\ \A kind, x : Carried(kind, x)
    BY <1>1, <2>2, <2>4, <2>5, QueueIs DEF Carried
  <2>7. ASSUME NEW x \in Campaign, x \notin missed', x \notin left' PROVE TotalNews(x)'
    <3>1. x \notin {channel[d], event[d]}
      BY <1>4, <2>1, NamesDiffer
    <3>2. x \notin missed /\ x \notin left /\ Carried("fact", x)
      BY <2>6, <2>7
    <3> QED
      BY <1>3, <3>1, <3>2
  <2> QED
    BY <1>1, <2>6, <2>7
<1>5. CASE channel[d] # None
  <2>1. PICK f \in Messages, g \in Messages, c \in Channel, e \in Event :
           /\ c = channel[d] /\ e = eventOf[c]
           /\ f.kind = "fact" /\ f.id = c /\ Fact(c)' = f
           /\ g.kind = "fact" /\ g.id = e /\ Fact(e)' = g
           /\ TiltifyTotals(channel[d])' = <<f, g>>
    BY <1>5, StatusQueue
  <2>2. PICK v \in Event : v = event[d] /\ (v = e \/ v \in left)
    BY <1>1, <1>2, <1>5, <2>1 DEF RouteOK
  <2>3. PICK q, S : q = <<f, g>> /\ S = {c, v}
    OBVIOUS
  <2>4. c # e /\ c # v /\ c # None /\ v # None /\ c \in Campaign /\ v \in Campaign
    BY NamesDiffer
  <2>5. {channel[d], event[d]} \ {None} = S
    BY <2>1, <2>2, <2>3, <2>4
  <2>6. Queue(q, S)
    BY <2>1, <2>3, <2>5
  <2>7. /\ q \in Seq(Messages) /\ Ends(q, "fact", c, f) /\ Ends(q, "fact", e, g)
        /\ \A x : Silent(q, "donation", x)
        /\ \A x : x # c /\ x # e => Silent(q, "fact", x)
    BY <2>1, <2>3, <2>4, TotalsNews
  <2>8. /\ queue' \in Seq(Messages)
        /\ \A x : x \notin S => (x \in missed' <=> x \in missed)
        /\ \A x : x \in missed' => x \in missed \/ x \in S
        /\ \A x : Carried("donation", x)
        /\ \A x : x # c /\ x # e => Carried("fact", x)
        /\ \A kind, x, m : Ends(q, kind, x, m) /\ x \in S /\ x \notin missed'
              => Ends(queue', kind, x, m)
        /\ active => \A kind, x, m : Ends(q, kind, x, m) => Ends(queue', kind, x, m)
        /\ ~active => queue' = queue
    BY <1>1, <2>6, <2>7, QueueIs DEF Carried
  <2>9. missed' \subseteq Donation \cup Campaign
    BY <1>1, <2>3, <2>4, <2>8
  <2>10. \A z \in Donation : z \in missed' <=> z \in missed
    BY <2>3, <2>4, <2>8, NamesDiffer
  <2>11. ASSUME NEW x \in Campaign, x \notin missed', x \notin left' PROVE TotalNews(x)'
    <3>1. CASE x = c
      <4>1. Ends(queue', "fact", c, f)
        BY <2>3, <2>7, <2>8, <2>11, <3>1
      <4> QED
        BY <2>1, <3>1, <4>1, TotalTold
    <3>2. CASE x = e /\ (active \/ e = v)
      <4>1. Ends(queue', "fact", e, g)
        BY <2>3, <2>7, <2>8, <2>11, <3>2
      <4> QED
        BY <2>1, <3>2, <4>1, TotalTold
    <3>3. CASE x = e /\ ~active /\ e # v
      <4>1. x \notin {channel[d], event[d]} /\ x \notin missed /\ x \notin left
        BY <2>1, <2>2, <2>3, <2>4, <2>8, <2>11, <3>3
      <4>2. Carried("fact", x)
        BY <2>8, <3>3, SameQueue
      <4> QED
        BY <1>3, <4>1, <4>2
    <3>4. CASE x # c /\ x # e
      <4>1. x # v /\ x \notin left
        BY <2>2, <2>11, <3>4
      <4>2. x \notin {channel[d], event[d]} /\ x \notin missed
        BY <2>1, <2>2, <2>3, <2>8, <2>11, <3>4, <4>1
      <4> QED
        BY <1>3, <2>8, <3>4, <4>1, <4>2
    <3> QED
      BY <3>1, <3>2, <3>3, <3>4
  <2> QED
    BY <2>8, <2>9, <2>10, <2>11
<1> QED
  BY <1>4, <1>5

LEMMA SetStatusStep ==
    ASSUME TypeOK, OverlayInv, NEW d \in Donation, SetStatus(d)
    PROVE  StepOK
<1>1. /\ UNCHANGED <<channel, event, hidden, named, native, eventOf, left, shown, total, active>>
      /\ changes < MaxChanges /\ changes' = changes + 1 /\ status[d] # "NONE"
  BY DEF SetStatus, Change, identity, consumer
<1>2. PICK s \in Status :
         /\ status' = [status EXCEPT ![d] = s]
         /\ refunded' = [refunded EXCEPT ![d] = s \in {"REFUNDED", "CHARGEBACK"}]
         /\ IF MovesTotals(status[d], s)
            THEN Queue(TiltifyTotals(channel[d])', {channel[d], event[d]} \ {None})
            ELSE UNCHANGED <<queue, missed>>
  BY DEF SetStatus
<1>3. /\ status \in [Donation -> Status \cup {"NONE"}]
      /\ queue \in Seq(Messages) /\ missed \subseteq Donation \cup Campaign
  BY DEF TypeOK
<1>4. status'[d] = s /\ s # "NONE" /\ \A z \in Donation \ {d} : status'[z] = status[z]
  BY <1>2, <1>3 DEF Status
<1>5. IsFiniteSet(Rows)'
  <2>1. Rows' = Rows
    BY <1>1, <1>4 DEF Rows
  <2> QED
    BY <2>1 DEF TypeOK, Rows
<1>6. /\ queue' \in Seq(Messages) /\ missed' \subseteq Donation \cup Campaign
      /\ \A z : Carried("donation", z)
      /\ \A z \in Donation : z \in missed' <=> z \in missed
      /\ \A x \in Campaign \ (missed' \cup left') : TotalNews(x)'
  <2>1. CASE MovesTotals(status[d], s)
    <3>1. Queue(TiltifyTotals(channel[d])', {channel[d], event[d]} \ {None})
      BY <1>2, <2>1
    <3> QED
      BY <1>1, <1>4, <1>5, <3>1, TotalsMove
  <2>2. CASE ~MovesTotals(status[d], s)
    <3>1. queue' = queue /\ missed' = missed
      BY <1>2, <2>2
    <3>2. ASSUME NEW x \in Campaign, x \notin missed', x \notin left' PROVE TotalNews(x)'
      <4>1. ASSUME NEW z \in Donation PROVE Gives(z, x)' <=> Gives(z, x)
        <5>1. Counts(status'[z]) <=> Counts(status[z])
          BY <1>4, <2>2 DEF MovesTotals, Counts
        <5> QED
          BY <1>1, <5>1 DEF Gives, Counts
      <4>2. TotalNews(x) /\ total'[x] = total[x]
        BY <1>1, <3>1, <3>2 DEF OverlayInv
      <4> QED
        BY <3>1, <4>1, <4>2, RaisedKept, SameQueue, TotalKept
    <3> QED
      BY <1>3, <3>1, <3>2, SameQueue
  <2> QED
    BY <2>1, <2>2
<1>7. TypeOK'
  <2>1. changes' \in 0..MaxChanges
    BY <1>1, ConstantsAssumption DEF TypeOK
  <2>2. status' \in [Donation -> Status \cup {"NONE"}]
    BY <1>2, <1>3
  <2>3. refunded' \in [Donation -> BOOLEAN]
    BY <1>2 DEF TypeOK
  <2> QED
    BY <1>1, <1>5, <1>6, <2>1, <2>2, <2>3 DEF TypeOK, Rows
<1>8. ASSUME NEW z \in Donation PROVE RouteOK(z)' /\ NativeOK(z)'
  <2>1. RouteOK(z) /\ NativeOK(z) /\ Carried("donation", z)
    BY <1>6 DEF OverlayInv
  <2>2. status'[z] = "NONE" => status[z] = "NONE"
    BY <1>4
  <2> QED
    BY <1>1, <2>1, <2>2 DEF RouteOK, NativeOK, Published, Carried
<1>9. ASSUME NEW z \in Donation, z \notin missed' PROVE DonationNews(z)'
  <2>1. DonationNews(z) /\ SameRow(z) /\ (z \in shown' <=> z \in shown)
    BY <1>1, <1>6, <1>9 DEF OverlayInv, SameRow
  <2> QED
    BY <1>6, <2>1, DonationKept
<1> QED
  BY <1>6, <1>7, <1>8, <1>9 DEF StepOK, OverlayInv

LEMMA SetHiddenStep ==
    ASSUME TypeOK, OverlayInv, NEW d \in Donation, NEW h \in BOOLEAN, SetHidden(d, h)
    PROVE  StepOK
<1>1. /\ UNCHANGED <<status, channel, event, named, refunded, eventOf, left, shown, total, active>>
      /\ hidden' = [hidden EXCEPT ![d] = h] /\ status[d] # "NONE"
      /\ changes' = changes \/ (changes < MaxChanges /\ changes' = changes + 1)
      /\ IF ChangesOverlay(d, h)
         THEN /\ Queue(TiltifyDonation(d)', {d})
              /\ Tell(d, IF h THEN "hidden" ELSE "shown")
         ELSE UNCHANGED <<queue, native, missed>>
  BY DEF SetHidden, Change, identity, consumer, messages
<1>2. /\ hidden \in [Donation -> BOOLEAN] /\ named \in [Donation -> BOOLEAN]
      /\ queue \in Seq(Messages) /\ missed \subseteq Donation \cup Campaign
      /\ native \in [Donation -> Seq({"shown", "hidden"})]
  BY DEF TypeOK
<1>3. /\ hidden'[d] = h /\ \A z \in Donation \ {d} : hidden'[z] = hidden[z]
      /\ hidden' \in [Donation -> BOOLEAN]
  BY <1>1, <1>2
<1>4. /\ queue' \in Seq(Messages) /\ missed' \subseteq Donation \cup Campaign
      /\ \A z \in Donation \ {d} : Carried("donation", z) /\ (z \in missed' <=> z \in missed)
      /\ \A x \in Campaign : Carried("fact", x) /\ (x \in missed' <=> x \in missed)
      /\ channel[d] = None => Carried("donation", d)
      /\ d \notin missed' => DonationNews(d)'
      /\ native' \in [Donation -> Seq({"shown", "hidden"})]
      /\ \A z \in Donation : NativeOK(z)'
  <2>1. RouteOK(d) /\ NativeOK(d) /\ (d \notin missed => DonationNews(d))
    BY DEF OverlayInv
  <2>2. CASE ChangesOverlay(d, h)
    <3>1. channel[d] # None /\ channel'[d] # None /\ h # hidden[d]
      BY <1>1, <2>1, <2>2 DEF ChangesOverlay, RouteOK
    <3>2. PICK t \in Messages : t.kind = "donation" /\ t.id = d /\ TiltifyDonation(d)' = <<t>>
      BY <1>1, <1>2, <1>3, <3>1, TiltifyWas
    <3>3. PICK q : q = <<t>>
      OBVIOUS
    <3>4. /\ q \in Seq(Messages) /\ Ends(q, "donation", d, t)
          /\ \A x : x # d => Silent(q, "donation", x)
          /\ \A x : Silent(q, "fact", x)
      BY <3>2, <3>3, HiddenNews
    <3>5. Queue(q, {d})
      BY <1>1, <2>2, <3>2, <3>3
    <3>6. /\ queue' \in Seq(Messages)
          /\ \A x : x \notin {d} => (x \in missed' <=> x \in missed)
          /\ \A x : x \in missed' => x \in missed \/ x \in {d}
          /\ \A x : x # d => Carried("donation", x)
          /\ \A x : Carried("fact", x)
          /\ d \notin missed' => Ends(queue', "donation", d, t)
      BY <1>2, <3>4, <3>5, QueueIs DEF Carried
    <3>7. d \notin missed' => DonationNews(d)'
      BY <3>2, <3>6, DonationTold
    <3>8. PICK w \in {"shown", "hidden"} : w = IF h THEN "hidden" ELSE "shown"
      OBVIOUS
    <3>9. Tell(d, w) /\ (hidden'[d] <=> w = "hidden") /\ Published(d)'
      BY <1>1, <1>3, <2>2, <3>1, <3>8 DEF Published
    <3>10. Published(d) => Last(native[d]) # w
      BY <1>2, <2>1, <3>1, <3>8 DEF NativeOK
    <3>11. /\ native' \in [Donation -> Seq({"shown", "hidden"})]
           /\ \A z \in Donation : NativeOK(z)'
      BY <1>1, <1>3, <3>9, <3>10, TellKeeps DEF OverlayInv
    <3>12. missed' \subseteq Donation \cup Campaign
      BY <1>2, <3>6
    <3> QED
      BY <3>1, <3>6, <3>7, <3>11, <3>12, NamesDiffer
  <2>3. CASE ~ChangesOverlay(d, h)
    <3>1. UNCHANGED <<queue, native, missed>>
      BY <1>1, <2>3
    <3>2. hidden'[d] = hidden[d] \/ ~Published(d)
      BY <1>3, <2>3 DEF ChangesOverlay, Published
    <3>3. ASSUME NEW z \in Donation PROVE NativeOK(z)'
      <4>1. NativeOK(z)
        BY DEF OverlayInv
      <4>2. hidden'[z] = hidden[z] \/ ~Published(z)
        BY <1>3, <3>2
      <4> QED
        BY <1>1, <3>1, <4>1, <4>2 DEF NativeOK, Published
    <3>4. ASSUME d \notin missed' PROVE DonationNews(d)'
      <4>1. CASE hidden'[d] = hidden[d]
        <5>1. DonationNews(d) /\ SameRow(d) /\ (d \in shown' <=> d \in shown)
          BY <1>1, <2>1, <3>1, <3>4, <4>1 DEF SameRow
        <5> QED
          BY <3>1, <5>1, SameQueue, DonationKept
      <4>2. CASE ~Published(d)
        <5>1. Silent(queue', "donation", d) /\ d \notin shown'
          BY <1>1, <2>1, <3>1, <4>2 DEF RouteOK, Published
        <5> QED
          BY <1>1, <4>2, <5>1 DEF DonationNews, ShownInStep, Published
      <4> QED
        BY <3>2, <4>1, <4>2
    <3> QED
      BY <1>2, <3>1, <3>3, <3>4, SameQueue
  <2> QED
    BY <2>2, <2>3
<1>5. TypeOK'
  <2>1. changes' \in 0..MaxChanges
    BY <1>1, ConstantsAssumption DEF TypeOK
  <2> QED
    BY <1>1, <1>3, <1>4, <2>1 DEF TypeOK
<1>6. ASSUME NEW z \in Donation PROVE RouteOK(z)'
  <2>1. RouteOK(z) /\ (channel[z] = None => Carried("donation", z))
    BY <1>4 DEF OverlayInv
  <2> QED
    BY <1>1, <2>1 DEF RouteOK, Carried
<1>7. ASSUME NEW z \in Donation, z \notin missed' PROVE DonationNews(z)'
  <2>1. CASE z = d
    BY <1>4, <1>7, <2>1
  <2>2. CASE z # d
    <3>1. DonationNews(z) /\ SameRow(z) /\ (z \in shown' <=> z \in shown) /\ Carried("donation", z)
      BY <1>1, <1>3, <1>4, <1>7, <2>2 DEF OverlayInv, SameRow
    <3> QED
      BY <3>1, DonationKept
  <2> QED
    BY <2>1, <2>2
<1>8. ASSUME NEW x \in Campaign, x \notin missed', x \notin left' PROVE TotalNews(x)'
  <2>1. TotalNews(x) /\ total'[x] = total[x] /\ Carried("fact", x)
    BY <1>1, <1>4, <1>8 DEF OverlayInv
  <2>2. \A z \in Donation : Gives(z, x)' <=> Gives(z, x)
    BY <1>1 DEF Gives
  <2> QED
    BY <2>1, <2>2, RaisedKept, TotalKept
<1> QED
  BY <1>4, <1>5, <1>6, <1>7, <1>8 DEF StepOK, OverlayInv

LEMMA GetCampaignStep ==
    ASSUME TypeOK, OverlayInv, NEW y \in Campaign, GetCampaign(y)
    PROVE  StepOK
<1>1. /\ UNCHANGED <<status, channel, event, hidden, named, refunded, eventOf, left, shown,
                     queue, native, missed, active>>
      /\ changes < MaxChanges /\ changes' = changes + 1
      /\ total' = [total EXCEPT ![y] = Raised(y)]
  BY DEF GetCampaign, Change, donations, identity, messages
<1>2. Raised(y) \in Nat /\ total \in [Campaign -> Nat]
  BY RaisedType DEF TypeOK, Rows
<1>3. TypeOK'
  <2>1. changes' \in 0..MaxChanges
    BY <1>1, ConstantsAssumption DEF TypeOK
  <2>2. total' \in [Campaign -> Nat]
    BY <1>1, <1>2
  <2> QED
    BY <1>1, <2>1, <2>2 DEF TypeOK
<1>4. ASSUME NEW z \in Donation PROVE RouteOK(z)' /\ NativeOK(z)'
  BY <1>1 DEF OverlayInv, RouteOK, NativeOK, Published
<1>5. ASSUME NEW z \in Donation, z \notin missed' PROVE DonationNews(z)'
  <2>1. DonationNews(z) /\ SameRow(z) /\ (z \in shown' <=> z \in shown)
    BY <1>1, <1>5 DEF OverlayInv, SameRow
  <2> QED
    BY <1>1, <2>1, SameQueue, DonationKept
<1>6. ASSUME NEW x \in Campaign, x \notin missed', x \notin left' PROVE TotalNews(x)'
  <2>1. TotalNews(x)
    BY <1>1, <1>6 DEF OverlayInv
  <2>2. \A z \in Donation : Gives(z, x)' <=> Gives(z, x)
    BY <1>1 DEF Gives
  <2>3. Raised(x)' = Raised(x) /\ Carried("fact", x)
    BY <1>1, <2>2, RaisedKept, SameQueue
  <2>4. total'[x] = total[x] \/ total'[x] = Raised(x)
    BY <1>1, <1>2
  <2>5. PICK m, r : m = Fact(x) /\ r = Raised(x)
    OBVIOUS
  <2>6. Fact(x)' = m /\ Raised(x)' = r
    BY <2>3, <2>5 DEF Fact
  <2> QED
    BY <2>1, <2>3, <2>4, <2>5, <2>6 DEF TotalNews, Carried
<1> QED
  BY <1>3, <1>4, <1>5, <1>6 DEF StepOK, OverlayInv

\* The one message about a donation, as its row is now.
LEMMA NewsSays ==
    ASSUME NEW d, NEW m \in Range(TiltifyDonation(d))
    PROVE  /\ channel[d] # None /\ m.kind = "donation" /\ m.id = d
           /\ m.named <=> named[d] /\ ~hidden[d]
           /\ m.completed <=> ~hidden[d]
<1>1. channel[d] # None
  BY DEF TiltifyDonation, Range
<1>2. PICK t : t = [kind |-> "donation", id |-> d, named |-> named[d] /\ ~hidden[d],
                    completed |-> ~hidden[d]]
  OBVIOUS
<1>3. TiltifyDonation(d) = <<t>>
  BY <1>1, <1>2 DEF TiltifyDonation
<1>4. Range(<<t>>) = {t}
  BY DEF Range
<1>5. m = t
  BY <1>3, <1>4
<1>6. /\ t.kind = "donation" /\ t.id = d
      /\ t.named = (named[d] /\ ~hidden[d]) /\ t.completed = (~hidden[d])
  BY <1>2
<1> QED
  BY <1>1, <1>5, <1>6

\* What a delivered message leaves of the news: those of its subject are done, or come
\* again.
LEMMA DeliveredQueue ==
    ASSUME queue \in Seq(Messages), queue # << >>, queue' \in {queue, Tail(queue)},
           NEW kind, NEW x
    PROVE  /\ Silent(queue, kind, x) => Silent(queue', kind, x) /\ ~About(Head(queue), kind, x)
           /\ \A m : Ends(queue, kind, x, m) =>
                 \/ Ends(queue', kind, x, m)
                 \/ Head(queue) = m /\ Silent(queue', kind, x)
<1>1. /\ Silent(queue, kind, x) =>
             Silent(Tail(queue), kind, x) /\ ~About(Head(queue), kind, x)
      /\ \A m : Ends(queue, kind, x, m) =>
            \/ Ends(Tail(queue), kind, x, m)
            \/ Head(queue) = m /\ Silent(Tail(queue), kind, x)
  BY TailIs
<1>2. CASE queue' = queue
  BY <1>1, <1>2
<1>3. CASE queue' = Tail(queue)
  BY <1>1, <1>3
<1> QED
  BY <1>2, <1>3

LEMMA DeliverStep ==
    ASSUME TypeOK, OverlayInv, Deliver
    PROVE  StepOK
<1>1. PICK m : m = Head(queue)
  OBVIOUS
<1>2. /\ queue # << >> /\ queue' \in {queue, Tail(queue)}
      /\ UNCHANGED <<status, channel, event, hidden, named, refunded, eventOf, left, active,
                     native, missed, changes>>
      /\ IF m.kind = "donation" THEN shown' = Display(m) /\ UNCHANGED total
         ELSE total' = [total EXCEPT ![m.id] = m.cents] /\ UNCHANGED shown
  BY <1>1 DEF Deliver, donations, identity
<1>3. queue \in Seq(Messages) /\ shown \subseteq Donation /\ total \in [Campaign -> Nat]
  BY DEF TypeOK
<1>4. /\ m \in Messages /\ queue' \in Seq(Messages)
  BY <1>1, <1>2, <1>3, HeadTailProperties
<1>5. /\ m.kind = "donation" => m.id \in Donation
      /\ m.kind # "donation" => m.kind = "fact" /\ m.id \in Campaign /\ m.cents \in Nat
  BY <1>4 DEF Messages
<1>6. \A kind, x :
         /\ Silent(queue, kind, x) => Silent(queue', kind, x) /\ ~About(m, kind, x)
         /\ \A n : Ends(queue, kind, x, n) =>
               \/ Ends(queue', kind, x, n)
               \/ m = n /\ Silent(queue', kind, x)
  BY <1>1, <1>2, <1>3, DeliveredQueue
<1>7. shown' \subseteq Donation /\ total' \in [Campaign -> Nat]
  BY <1>2, <1>3, <1>5 DEF Display
<1>8. TypeOK'
  BY <1>2, <1>4, <1>7 DEF TypeOK
<1>9. ASSUME NEW z \in Donation, ~About(m, "donation", z) PROVE z \in shown' <=> z \in shown
  BY <1>2, <1>9 DEF About, Display
<1>10. ASSUME NEW z \in Donation PROVE RouteOK(z)' /\ NativeOK(z)'
  <2>1. RouteOK(z) /\ NativeOK(z)
    BY DEF OverlayInv
  <2>2. channel[z] = None => Silent(queue', "donation", z) /\ z \notin shown'
    BY <1>6, <1>9, <2>1 DEF RouteOK
  <2> QED
    BY <1>2, <2>1, <2>2 DEF RouteOK, NativeOK, Published
<1>11. ASSUME NEW z \in Donation, z \notin missed' PROVE DonationNews(z)'
  <2>1. DonationNews(z)
    BY <1>2, <1>11 DEF OverlayInv
  <2>2. TiltifyDonation(z)' = TiltifyDonation(z)
    BY <1>2 DEF TiltifyDonation
  <2>3. CASE Silent(queue, "donation", z) /\ ShownInStep(z)
    <3>1. Silent(queue', "donation", z) /\ (z \in shown' <=> z \in shown)
      BY <1>6, <1>9, <2>3
    <3> QED
      BY <1>2, <2>3, <3>1 DEF DonationNews, ShownInStep, Published
  <2>4. ASSUME NEW n \in Range(TiltifyDonation(z)), Ends(queue, "donation", z, n)
        PROVE  DonationNews(z)'
    <3>1. CASE Ends(queue', "donation", z, n)
      <4>1. n \in Range(TiltifyDonation(z))'
        BY <2>2, <2>4
      <4> QED
        BY <3>1, <4>1 DEF DonationNews
    <3>2. CASE m = n /\ Silent(queue', "donation", z)
      <4>1. /\ channel[z] # None /\ m.kind = "donation" /\ m.id = z
            /\ m.named <=> named[z] /\ ~hidden[z]
            /\ m.completed <=> ~hidden[z]
        BY <2>4, <3>2, NewsSays
      <4>2. shown' = Display(m)
        BY <1>2, <4>1
      <4>3. z \in shown' => ~hidden[z]
        BY <4>1, <4>2 DEF Display
      <4>4. ~hidden[z] /\ named[z] => z \in shown'
        BY <4>1, <4>2 DEF Display
      <4>5. ShownInStep(z)'
        BY <1>2, <4>1, <4>3, <4>4 DEF ShownInStep, Published
      <4> QED
        BY <3>2, <4>5 DEF DonationNews
    <3> QED
      BY <1>6, <2>4, <3>1, <3>2
  <2> QED
    BY <2>1, <2>3, <2>4 DEF DonationNews
<1>12. ASSUME NEW x \in Campaign, x \notin missed', x \notin left' PROVE TotalNews(x)'
  <2>1. TotalNews(x)
    BY <1>2, <1>12 DEF OverlayInv
  <2>2. \A z \in Donation : Gives(z, x)' <=> Gives(z, x)
    BY <1>2 DEF Gives
  <2>3. PICK n, r : n = Fact(x) /\ r = Raised(x)
    OBVIOUS
  <2>4. Fact(x)' = n /\ Raised(x)' = r
    BY <2>2, <2>3, RaisedKept
  <2>5. n.kind = "fact" /\ n.id = x /\ n.cents = r
    BY <2>3, FactIs
  <2>6. ~About(m, "fact", x) => total'[x] = total[x]
    BY <1>2, <1>3, <1>5 DEF About
  <2>7. CASE Silent(queue, "fact", x) /\ total[x] = Raised(x)
    BY <1>6, <2>3, <2>4, <2>6, <2>7 DEF TotalNews
  <2>8. CASE Ends(queue, "fact", x, n)
    <3>1. CASE Ends(queue', "fact", x, n)
      BY <2>4, <3>1 DEF TotalNews
    <3>2. CASE m = n /\ Silent(queue', "fact", x)
      <4>1. total'[x] = r
        BY <1>2, <1>3, <2>5, <3>2
      <4> QED
        BY <2>4, <3>2, <4>1 DEF TotalNews
    <3> QED
      BY <1>6, <2>8, <3>1, <3>2
  <2> QED
    BY <2>1, <2>3, <2>7, <2>8 DEF TotalNews
<1> QED
  BY <1>8, <1>10, <1>11, <1>12 DEF StepOK, OverlayInv

-----------------------------------------------------------------------------
(* The specification.                                                      *)

LEMMA OverlayInit ==
    ASSUME Init
    PROVE  TypeOK /\ OverlayInv
<1>1. /\ status = [d \in Donation |-> "NONE"] /\ channel = [d \in Donation |-> None]
      /\ event = [d \in Donation |-> None] /\ hidden = [d \in Donation |-> FALSE]
      /\ named = [d \in Donation |-> FALSE] /\ refunded = [d \in Donation |-> FALSE]
      /\ eventOf \in [Channel -> Event] /\ left = {} /\ active = TRUE /\ queue = << >>
      /\ shown = {} /\ total = [x \in Campaign |-> 0]
      /\ native = [d \in Donation |-> << >>] /\ missed = {} /\ changes = 0
  BY DEF Init
<1>2. /\ Rows = {} /\ IsFiniteSet({}) /\ << >> \in Seq(Messages)
      /\ << >> \in Seq({"shown", "hidden"})
  BY <1>1, FS_EmptySet, EmptySeq DEF Rows
<1>3. TypeOK
  <2>1. IsFiniteSet({d \in Donation : status[d] # "NONE"})
    BY <1>2 DEF Rows
  <2>2. changes \in 0..MaxChanges
    BY <1>1, ConstantsAssumption
  <2> QED
    BY <1>1, <1>2, <2>1, <2>2 DEF TypeOK
<1>4. \A kind, x : Silent(queue, kind, x)
  BY <1>1 DEF Silent
<1>5. ASSUME NEW d \in Donation PROVE RouteOK(d) /\ NativeOK(d) /\ DonationNews(d)
  <2>1. channel[d] = None /\ event[d] = None /\ native[d] = << >> /\ d \notin shown
    BY <1>1
  <2>2. Len(native[d]) - 1 = 0 - 1
    BY <2>1
  <2>3. NativeOK(d)
    BY <2>1, <2>2 DEF NativeOK, Published
  <2> QED
    BY <1>4, <2>1, <2>3 DEF RouteOK, DonationNews, ShownInStep, Published
<1>6. ASSUME NEW x \in Campaign PROVE TotalNews(x)
  <2>1. Gifts(x) = {}
    BY <1>1 DEF Gifts, Gives, Counts
  <2>2. Raised(x) = 0
    BY <2>1, RaisedIs, TotalEmpty
  <2> QED
    BY <1>1, <1>4, <2>2 DEF TotalNews
<1> QED
  BY <1>3, <1>5, <1>6 DEF OverlayInv

LEMMA NextStep ==
    ASSUME TypeOK, OverlayInv, [Next]_vars
    PROVE  StepOK
<1>1. ASSUME NEW d \in Donation, Record(d) \/ Assign(d) \/ SetStatus(d) PROVE StepOK
  BY <1>1, RecordStep, AssignStep, SetStatusStep
<1>2. ASSUME NEW d \in Donation, NEW h \in BOOLEAN, SetHidden(d, h) PROVE StepOK
  BY <1>2, SetHiddenStep
<1>3. ASSUME NEW c \in Channel, MoveChannel(c) PROVE StepOK
  BY <1>3, MoveChannelStep
<1>4. ASSUME NEW x \in Campaign, GetCampaign(x) PROVE StepOK
  BY <1>4, GetCampaignStep
<1>5. CASE Pause \/ Resume
  BY <1>5, PauseStep
<1>6. CASE Deliver
  BY <1>6, DeliverStep
<1>7. CASE UNCHANGED vars
  <2>1. /\ UNCHANGED <<status, channel, event, hidden, named, refunded, eventOf, left, shown,
                       total, queue, native, missed, active, changes>>
    BY <1>7 DEF vars, donations, identity, consumer, messages
  <2>2. TypeOK'
    BY <2>1 DEF TypeOK
  <2>3. ASSUME NEW z \in Donation PROVE RouteOK(z)' /\ NativeOK(z)'
    BY <2>1 DEF OverlayInv, RouteOK, NativeOK, Published
  <2>4. ASSUME NEW z \in Donation, z \notin missed' PROVE DonationNews(z)'
    <3>1. DonationNews(z) /\ SameRow(z) /\ (z \in shown' <=> z \in shown)
      BY <2>1, <2>4 DEF OverlayInv, SameRow
    <3> QED
      BY <2>1, <3>1, SameQueue, DonationKept
  <2>5. ASSUME NEW x \in Campaign, x \notin missed', x \notin left' PROVE TotalNews(x)'
    <3>1. TotalNews(x) /\ total'[x] = total[x]
      BY <2>1, <2>5 DEF OverlayInv
    <3>2. \A z \in Donation : Gives(z, x)' <=> Gives(z, x)
      BY <2>1 DEF Gives
    <3> QED
      BY <2>1, <3>1, <3>2, RaisedKept, SameQueue, TotalKept
  <2> QED
    BY <2>2, <2>3, <2>4, <2>5 DEF StepOK, OverlayInv
<1> QED
  BY <1>1, <1>2, <1>3, <1>4, <1>5, <1>6, <1>7 DEF Next

\* Whatever staff route, hide, show, charge back and move, and however messages wait
\* or come again: the last news of every donation and of every total say what the
\* tables say, or the overlay has it already.
THEOREM OverlayCorrect == Spec => [](TypeOK /\ RouteInv /\ NewsInv)
<1>1. Init => TypeOK /\ OverlayInv
  BY OverlayInit
<1>2. TypeOK /\ OverlayInv /\ [Next]_vars => (TypeOK /\ OverlayInv)'
  BY NextStep DEF StepOK
<1>3. TypeOK /\ OverlayInv => TypeOK /\ RouteInv /\ NewsInv
  BY InvIs
<1> QED
  BY <1>1, <1>2, <1>3, PTL DEF Spec

\* With nothing left to deliver, the overlay shows what is not hidden and the money of
\* every Channel and of every Event that no Channel has left (tiltifyPayload.ts,
\* publishRoutedDonation, the PATCH routes).
THEOREM InStepHolds == Spec => []InStep
<1>1. ASSUME NewsInv PROVE InStep
  <2> SUFFICES ASSUME queue = << >> PROVE OverlayInStep /\ TotalsInStep(Campaign \ left)
    BY DEF InStep
  <2>1. \A kind, x, m : ~Ends(queue, kind, x, m)
    BY DEF Ends
  <2>2. OverlayInStep
    BY <1>1, <2>1 DEF NewsInv, DonationNews, OverlayInStep
  <2>3. TotalsInStep(Campaign \ left)
    BY <1>1, <2>1 DEF NewsInv, TotalNews, TotalsInStep
  <2> QED
    BY <2>2, <2>3
<1> QED
  BY <1>1, OverlayCorrect, PTL

\* The native messages of a donation alternate, begin when it is routed and end with
\* what its row says, so a second hide says nothing (the PATCH of moderator.ts).
THEOREM NativeInStepHolds == Spec => []NativeInStep
<1>1. Init => TypeOK /\ OverlayInv
  BY OverlayInit
<1>2. TypeOK /\ OverlayInv /\ [Next]_vars => (TypeOK /\ OverlayInv)'
  BY NextStep DEF StepOK
<1>3. TypeOK /\ OverlayInv => NativeInStep
  BY InvIs
<1> QED
  BY <1>1, <1>2, <1>3, PTL DEF Spec
=============================================================================
