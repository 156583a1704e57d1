-------------------------------- MODULE Overlay --------------------------------
(***************************************************************************)
(* What the stream learns of donations: the Tiltify-shaped messages of     *)
(* services/webhooks/tiltifyPayload.ts, the totals they carry              *)
(* (lib/donationTotals.ts), the native visibility messages, the staff      *)
(* routes that change what is published, and the overlay that listens.     *)
(*                                                                         *)
(* Every change runs in one transaction with the messages it queues, so it *)
(* is one step.  Delivery is FIFO and at least once, as WebhookQueue       *)
(* promises; the overlay may also ask the REST API (services/tiltifyApi.ts)*)
(* for a total.                                                            *)
(***************************************************************************)
EXTENDS Integers, Sequences, FiniteSets, Functions, FiniteSetsExt, SequencesExt

CONSTANTS
    Donation,
    Channel,
    Event,
    None,       \* an unassigned donation, or no donation at all
    Amount,     \* Donation.amount_cents by donation
    MaxChanges, \* bound: what staff change, and totals read over REST
    MaxQueue    \* bound: messages that wait

ASSUME ConstantsAssumption ==
    /\ Amount \in [Donation -> Nat \ {0}]
    /\ None \notin Channel \cup Event /\ Channel \cap Event = {}
    /\ Donation \cap (Channel \cup Event) = {}
    /\ MaxChanges \in Nat /\ MaxQueue \in Nat

VARIABLES
    status,     \* Donation.status, "NONE" without a row
    channel,    \* Donation.channel_id
    event,      \* Donation.event_id
    hidden,     \* Donation.hidden_from_overlay
    named,      \* whether donor_name is a display name
    refunded,   \* whether refund_id is set
    eventOf,    \* Channel.event_id
    active,     \* whether the TILTIFY Destination is active
    queue,      \* its PENDING rows in order
    shown,      \* the donations on the overlay
    total,      \* the totals it shows, by Channel and Event
    native,     \* history: what the NATIVE Destination was told of a donation
    missed,     \* history: what last changed while the Destination was paused
    left,       \* history: Events that a Channel has left
    changes

donations == <<status, channel, event, hidden, named, refunded>>
identity == <<eventOf, left>>
consumer == <<shown, total>>
messages == <<queue, native, missed>>
vars == <<donations, identity, consumer, messages, active, changes>>

Status == {"PENDING", "COMPLETED", "REFUNDED", "CHARGEBACK"}
Campaign == Channel \cup Event
Messages == [kind : {"donation"}, id : Donation, named : BOOLEAN, completed : BOOLEAN]
            \cup [kind : {"fact"}, id : Campaign, cents : Nat]

TypeOK ==
    /\ status \in [Donation -> Status \cup {"NONE"}]
    /\ channel \in [Donation -> Channel \cup {None}]
    /\ event \in [Donation -> Event \cup {None}]
    /\ hidden \in [Donation -> BOOLEAN] /\ named \in [Donation -> BOOLEAN]
    /\ refunded \in [Donation -> BOOLEAN]
    /\ eventOf \in [Channel -> Event] /\ left \subseteq Event
    /\ active \in BOOLEAN /\ queue \in Seq(Messages)
    /\ shown \subseteq Donation /\ total \in [Campaign -> Nat]
    /\ native \in [Donation -> Seq({"shown", "hidden"})]
    /\ missed \subseteq Donation \cup Campaign
    /\ changes \in 0..MaxChanges
    /\ IsFiniteSet({d \in Donation : status[d] # "NONE"})

-----------------------------------------------------------------------------
(* What the messages say                                                   *)

\* The statuses whose money the charity holds.
Counts(s) == s \in {"COMPLETED", "REFUNDED"}

\* The money of a Channel or an Event: a sum over the rows, never a counter.
Gives(d, x) == x \in {channel[d], event[d]} /\ Counts(status[d])
Gifts(x) == {d \in Donation : Gives(d, x)}
Money(ds) == MapThenSumSet(LAMBDA d : Amount[d], ds)
Raised(x) == Money(Gifts(x))

\* The Tiltify donation as it is now.  A hidden one is called "Anonymous", like
\* one without a display name, and has no completed_at.  Without a Channel it
\* is not published.
TiltifyDonation(d) ==
    IF channel[d] = None THEN <<>>
    ELSE <<[kind |-> "donation", id |-> d, named |-> named[d] /\ ~hidden[d],
            completed |-> ~hidden[d]]>>

\* One fact for a Channel and one for the Event it belongs to now.
Fact(x) == [kind |-> "fact", id |-> x, cents |-> Raised(x)]
TiltifyTotals(c) == IF c = None THEN <<>> ELSE <<Fact(c), Fact(eventOf[c])>>

\* Messages go to the Destination only while it is active.  The documents
\* promise news of the subjects: what a pause keeps from the overlay is noted.
Queue(msgs, subjects) ==
    /\ queue' = IF active THEN queue \o msgs ELSE queue
    /\ Len(queue') <= MaxQueue
    /\ missed' = IF active THEN missed \ subjects ELSE missed \cup subjects

Tell(d, what) == native' = [native EXCEPT ![d] = Append(@, what)]

\* The transaction reads back the row it has written.
PublishRouted(d) ==
    /\ Queue((TiltifyDonation(d) \o TiltifyTotals(channel[d]))', {d, channel[d]', event[d]'})
    /\ Tell(d, IF hidden[d] THEN "hidden" ELSE "shown")

-----------------------------------------------------------------------------
(* The server                                                              *)

Change == changes < MaxChanges /\ changes' = changes + 1

Init ==
    /\ status = [d \in Donation |-> "NONE"]
    /\ channel = [d \in Donation |-> None] /\ event = [d \in Donation |-> None]
    /\ hidden = [d \in Donation |-> FALSE] /\ named = [d \in Donation |-> FALSE]
    /\ refunded = [d \in Donation |-> FALSE]
    /\ eventOf \in [Channel -> Event] /\ left = {}
    /\ active = TRUE /\ queue = <<>>
    /\ shown = {} /\ total = [x \in Campaign |-> 0]
    /\ native = [d \in Donation |-> <<>>] /\ missed = {} /\ changes = 0

Route(d, c) ==
    /\ channel' = [channel EXCEPT ![d] = c]
    /\ event' = [event EXCEPT ![d] = eventOf[c]]

\* A donation comes in: by a payment, by hand, or by a wallet that covers a
\* pledge.  What the pledge says of the name is in the row before it is read
\* back.  Without a route the donation waits for staff.
Record(d) ==
    /\ status[d] = "NONE"
    /\ UNCHANGED <<hidden, refunded, identity, consumer, active, changes>>
    /\ status' = [status EXCEPT ![d] = "COMPLETED"]
    /\ \E n \in BOOLEAN : named' = [named EXCEPT ![d] = n]
    /\ \/ \E c \in Channel : Route(d, c) /\ PublishRouted(d)
       \/ UNCHANGED <<channel, event, messages>>

\* PATCH /admin/donations/:id/channel
Assign(d) ==
    /\ status[d] # "NONE" /\ channel[d] = None /\ event[d] = None
    /\ UNCHANGED <<status, hidden, named, refunded, identity, consumer, active, changes>>
    /\ \E c \in Channel : Route(d, c)
    /\ PublishRouted(d)

\* Mutant: only a chargeback is published.
MovesTotals_Chargeback(from, to) == to = "CHARGEBACK"

\* Whether a change of status moves the totals.
MovesTotals(from, to) == Counts(from) # Counts(to)

\* PATCH /admin/donations/:id/status; the money is in the module Wallet.
SetStatus(d) ==
    /\ status[d] # "NONE" /\ ~refunded[d] /\ Change
    /\ UNCHANGED <<channel, event, hidden, named, native, identity, consumer, active>>
    /\ \E s \in Status \ {status[d]} :
           /\ status' = [status EXCEPT ![d] = s]
           /\ refunded' = [refunded EXCEPT ![d] = s \in {"REFUNDED", "CHARGEBACK"}]
           /\ IF MovesTotals(status[d], s)
              THEN Queue(TiltifyTotals(channel[d])', {channel[d], event[d]} \ {None})
              ELSE UNCHANGED <<queue, missed>>

\* Mutant: the value it already has is published again.
ChangesOverlay_Same(d, h) == channel[d] # None \/ event[d] # None

\* An unassigned donation was never published: there is nothing to hide, and a
\* second hide says nothing new.
ChangesOverlay(d, h) == h # hidden[d] /\ (channel[d] # None \/ event[d] # None)

\* PATCH /moderator/donations/:id.  The review toggle alone publishes nothing
\* here and is left out.
SetHidden(d, h) ==
    /\ status[d] # "NONE"
    /\ UNCHANGED <<status, channel, event, named, refunded, identity, consumer, active>>
    /\ hidden' = [hidden EXCEPT ![d] = h]
    /\ h # hidden[d] => Change
    /\ h = hidden[d] => UNCHANGED changes
    /\ IF ChangesOverlay(d, h)
       THEN /\ Queue(TiltifyDonation(d)', {d})
            /\ Tell(d, IF h THEN "hidden" ELSE "shown")
       ELSE UNCHANGED messages

\* updateChannel with another Event; the rules of primary Channels are in the
\* module Identity.
MoveChannel(c) ==
    /\ Change
    /\ \E e \in Event \ {eventOf[c]} : eventOf' = [eventOf EXCEPT ![c] = e]
    /\ left' = left \cup {eventOf[c]}
    /\ UNCHANGED <<donations, consumer, messages, active>>

\* PUT /admin/destinations/:id pauses and resumes.
Pause == active /\ active' = FALSE /\ Change /\ UNCHANGED <<donations, identity, consumer, messages>>
Resume ==
    /\ ~active /\ active' = TRUE
    /\ UNCHANGED <<donations, identity, consumer, messages, changes>>

-----------------------------------------------------------------------------
(* The overlay                                                             *)

\* A donation it shows that is called "Anonymous" goes; one it does not show is
\* added if it is completed.
Display(m) ==
    CASE m.id \in shown /\ ~m.named -> shown \ {m.id}
      [] m.id \notin shown /\ m.completed -> shown \cup {m.id}
      [] OTHER -> shown

\* The head of the queue arrives; when the confirm is lost it comes again.
Deliver ==
    /\ active /\ queue # <<>>
    /\ LET m == Head(queue)
       IN  IF m.kind = "donation" THEN shown' = Display(m) /\ UNCHANGED total
           ELSE total' = [total EXCEPT ![m.id] = m.cents] /\ UNCHANGED shown
    /\ queue' \in {queue, Tail(queue)}
    /\ UNCHANGED <<donations, identity, active, native, missed, changes>>

\* GET /tiltify/campaigns/:id
GetCampaign(x) ==
    /\ Change
    /\ total' = [total EXCEPT ![x] = Raised(x)]
    /\ UNCHANGED <<donations, identity, messages, active, shown>>

Next ==
    \/ \E d \in Donation :
           \/ Record(d) \/ Assign(d) \/ SetStatus(d)
           \/ \E h \in BOOLEAN : SetHidden(d, h)
    \/ \E c \in Channel : MoveChannel(c)
    \/ \E x \in Campaign : GetCampaign(x)
    \/ Pause \/ Resume \/ Deliver

Spec == Init /\ [][Next]_vars

-----------------------------------------------------------------------------
(* Properties                                                              *)

Published(d) == channel[d] # None \/ event[d] # None

\* What the overlay should show, but for what a pause has kept from it.  (A
\* donation without a display name may go when a message is repeated: PRD T9.)
ShownInStep(d) ==
    /\ d \in shown => Published(d) /\ ~hidden[d]
    /\ Published(d) /\ ~hidden[d] /\ named[d] => d \in shown
OverlayInStep == \A d \in Donation \ missed : ShownInStep(d)

\* What the totals should be.
TotalsInStep(xs) == \A x \in xs \ missed : total[x] = Raised(x)

About(m, kind, x) == m.kind = kind /\ m.id = x
Silent(q, kind, x) == \A i \in DOMAIN q : ~About(q[i], kind, x)
\* m is the last message about x that waits in q.
Ends(q, kind, x, m) ==
    \E i \in DOMAIN q : q[i] = m /\ \A j \in DOMAIN q : j > i => ~About(q[j], kind, x)

\* A donation is routed by its row, to a Channel and to the Event that Channel is of,
\* or was of once; only routed ones are told of.
RouteInv ==
    \A d \in Donation :
        /\ channel[d] = None <=> event[d] = None
        /\ status[d] = "NONE" => channel[d] = None
        /\ channel[d] # None => event[d] \in left \cup {eventOf[channel[d]]}
        /\ channel[d] = None => Silent(queue, "donation", d) /\ d \notin shown

\* The last news of a donation or of a total says what the tables say now; without
\* news on its way the overlay is in step already.
DonationNews(d) ==
    \/ \E m \in Range(TiltifyDonation(d)) : Ends(queue, "donation", d, m)
    \/ Silent(queue, "donation", d) /\ ShownInStep(d)
TotalNews(x) ==
    \/ Ends(queue, "fact", x, Fact(x))
    \/ Silent(queue, "fact", x) /\ total[x] = Raised(x)
NewsInv ==
    /\ \A d \in Donation \ missed : DonationNews(d)
    /\ \A x \in Campaign \ (missed \cup left) : TotalNews(x)

\* When all messages have arrived the overlay shows the donations that are not
\* hidden and the money of every Channel and of every Event that no Channel has
\* left, whatever was hidden, shown again, charged back, assigned late,
\* delivered twice or read over REST in between (tiltifyPayload.ts,
\* publishRoutedDonation, the two PATCH routes).
InStep == queue = <<>> => OverlayInStep /\ TotalsInStep(Campaign \ left)

\* The native messages of a donation begin when it is routed, end with what its
\* row says, and never say the same twice in a row: two hides that overlap
\* publish once, and one that is hidden before it is assigned is announced so.
NativeInStep ==
    \A d \in Donation :
        /\ Published(d) <=> native[d] # <<>>
        /\ Published(d) => (Last(native[d]) = "hidden" <=> hidden[d])
        /\ \A i \in 1..(Len(native[d]) - 1) : native[d][i] # native[d][i + 1]

\* PRD-0002 T7: totals are published for the Channel and its Event whenever a
\* total changes, so that no Event is left with an old one.  It does not hold for
\* the Event a donation was given to before its Channel moved (README, divergences).
EventTotalsInStep == queue = <<>> => TotalsInStep(Event)
=============================================================================
