--------------------------------- MODULE Cart ---------------------------------
(***************************************************************************)
(* The donor's cart in the browser (client/src/context/CartContext.tsx),   *)
(* the lists it is filled from (components/incentives), and its checkout   *)
(* (components/CartDrawer.tsx).  Rewards, poll options and goals are       *)
(* items; a list is refreshed in the background, replaced by a             *)
(* revalidation, and merged so that the donor's selection stays.           *)
(*                                                                         *)
(* React runs one handler at a time and a handler sees the state of the    *)
(* render it was made in: what runCheckout reads after an await is what    *)
(* the cart was at the click.  The answer to a request is fixed when it is *)
(* asked and may be late or lost on its way back.  Amounts are left out.   *)
(***************************************************************************)
EXTENDS Integers, Sequences, FiniteSets, Functions, SequencesExt

CONSTANTS
    Item,
    Channels,
    NoChannel,   \* no Channel: shared, not selected, or nothing pending
    Home,        \* channel_id of an incentive
    Reward,      \* the items with a quantity; the others are votes and goals
    Stock,       \* how many of a reward there are
    Link,        \* the items a permalink is followed to
    Run,         \* checkouts that can be under way at once
    MaxChanges   \* bound: incentives that open, close or sell while the donor shops

ASSUME ConstantsAssumption ==
    /\ IsFiniteSet(Item)
    /\ NoChannel \notin Channels /\ Home \in [Item -> Channels \cup {NoChannel}]
    /\ Reward \subseteq Item /\ Link \subseteq Item /\ Stock \in Nat \ {0} /\ MaxChanges \in Nat

VARIABLES
    listed, left,  \* the server: incentives in its lists, and units left
    changes,
    loaded,        \* the first load has come back, one way or the other
    asked,         \* the answers of background loads on their way
    shown, known,  \* the lists in their order, and the units left they tell of
    stale,         \* shown for the cart's sake only
    cart,          \* quantity by item, 0 for what is not in the cart
    selected, pending,
    followed,      \* consumedPrefill: permalinks already applied
    focus,         \* the item whose amount is being typed
    timer,         \* edits waiting for CART_SYNC_DEBOUNCE_MS
    drawer, phase, ack, issues,
    run,           \* what each runCheckout has captured, and where it stands
    submitting,
    cleared,       \* history: items a checkout cleared while an edit of them waited
    linked, lost   \* history: items of the cart that came by a link, or that the
                   \* lists did not hold while they were in the cart

server == <<listed, left, changes>>
lists == <<loaded, shown, known, stale>>
choice == <<selected, pending>>
editing == <<focus, timer>>
review == <<drawer, phase, ack, issues>>
history == <<cleared, linked, lost>>
cartVars == <<server, lists, asked, cart, choice, followed, editing, review, run,
          submitting, history>>

Place == Channels \cup {NoChannel}
Answer == [listed : SUBSET Item, left : [Item -> 0..Stock]]
Contents == [Item -> 0..Stock]
Empty == [i \in Item |-> 0]
Ended == [stage |-> "none", cart |-> Empty, channel |-> NoChannel, ack |-> FALSE,
          fresh |-> [listed |-> {}, left |-> Empty]]

CartTypeOK ==
    /\ listed \subseteq Item /\ left \in [Item -> 0..Stock] /\ changes \in 0..MaxChanges
    /\ loaded \in BOOLEAN /\ asked \subseteq Answer
    /\ shown \in Seq(Item) /\ IsInjective(shown)
    /\ known \in [Item -> 0..Stock] /\ stale \subseteq Item
    /\ cart \in Contents /\ \A i \in Item \ Reward : cart[i] <= 1
    /\ selected \in Place /\ pending \in Place /\ followed \subseteq Item
    /\ focus \subseteq Item /\ timer \subseteq Item
    /\ drawer \in BOOLEAN /\ phase \in {"idle", "checking", "nudge", "issues"}
    /\ ack \in BOOLEAN /\ issues \subseteq Item
    /\ run \in [Run -> [stage : {"none", "checking", "posting", "accepted", "refused"},
                        cart : Contents, channel : Place, ack : BOOLEAN,
                        fresh : Answer]]
    /\ submitting \in BOOLEAN
    /\ cleared \subseteq Item /\ linked \subseteq Item /\ lost \subseteq Item

CartInit ==
    /\ listed = Item /\ left = [i \in Item |-> IF i \in Reward THEN Stock ELSE 1] /\ changes = 0
    /\ loaded = FALSE /\ asked = {} /\ shown = << >> /\ known = Empty /\ stale = {}
    /\ cart = Empty /\ selected = NoChannel /\ pending = NoChannel /\ followed = {}
    /\ focus = {} /\ timer = {}
    /\ drawer = FALSE /\ phase = "idle" /\ ack = FALSE /\ issues = {}
    /\ run = [r \in Run |-> Ended] /\ submitting = FALSE
    /\ cleared = {} /\ linked = {} /\ lost = {}

InCart == {i \in Item : cart[i] > 0}
OnScreen == Range(shown)

-----------------------------------------------------------------------------
(* The server: staff open and close incentives, others buy.                *)

Listing(ls, lf) ==
    /\ changes < MaxChanges /\ changes' = changes + 1
    /\ listed' = ls /\ left' = lf
    /\ UNCHANGED <<lists, asked, cart, choice, followed, editing, review, run, submitting, history>>

Change(i) ==
    \/ Listing(IF i \in listed THEN listed \ {i} ELSE listed \cup {i}, left)
    \/ i \in Reward /\ left[i] > 0 /\ Listing(listed, [left EXCEPT ![i] = @ - 1])

Now == [listed |-> listed, left |-> left]

-----------------------------------------------------------------------------
(* The lists.                                                              *)

Protected_None == {}
Protected == InCart

\* What seq has of a set of items, in its order.
Only(seq, is) ==
    LET first[n \in 0..Len(seq)] ==
            IF n = 0 THEN << >>
            ELSE IF seq[n] \in is THEN Append(first[n - 1], seq[n]) ELSE first[n - 1]
    IN  first[Len(seq)]

\* What is on screen stays in its order, what is new comes last.
Merge(old, fresh) ==
    {Only(old, fresh.listed \cup Protected) \o tail :
        tail \in SetToSeqs(fresh.listed \ Range(old))}

Update(fresh) ==
    [i \in Item |-> IF i \in fresh.listed THEN fresh.left[i]
                    ELSE IF i \in Range(shown') THEN known[i] ELSE 0]

\* Items of the cart that leave the lists for their history.
Missing(seq) == lost' = lost \cup (InCart \ Range(seq))

\* The load when the page opens, and the one of every INCENTIVES_POLL_MS.
Ask ==
    /\ asked = {} /\ asked' = {Now}
    /\ UNCHANGED <<server, lists, cart, choice, followed, editing, review, run, submitting, history>>

\* The first answer is shown as it is; a later one is merged.
Refresh(fresh) ==
    /\ fresh \in asked /\ asked' = asked \ {fresh}
    /\ loaded' = TRUE
    /\ IF loaded THEN /\ shown' \in Merge(shown, fresh)
                      /\ stale' = (OnScreen \cap InCart) \ fresh.listed
                 ELSE /\ shown' \in SetToSeqs(fresh.listed)
                      /\ stale' = stale
    /\ known' = Update(fresh)
    /\ Missing(shown')
    /\ UNCHANGED <<server, cart, choice, followed, editing, review, run, submitting,
                   cleared, linked>>

LoadFails(fresh) ==
    /\ fresh \in asked /\ asked' = asked \ {fresh}
    /\ loaded' = TRUE
    /\ Missing(shown)
    /\ UNCHANGED <<server, shown, known, stale, cart, choice, followed, editing, review, run,
                   submitting, cleared, linked>>

-----------------------------------------------------------------------------
(* Filling the cart.                                                       *)

InView(i) == i \in OnScreen /\ Home[i] \in {NoChannel, selected}
Browsing == ~drawer /\ loaded /\ selected # NoChannel
Forget(is) == linked' = linked \ is /\ lost' = lost \ is

\* An item that is there already keeps its quantity.
Put(i) == cart' = [cart EXCEPT ![i] = IF @ = 0 THEN 1 ELSE @]

\* A click anywhere else takes the focus away, see Blur.
Add(i) ==
    /\ Browsing /\ focus = {} /\ InView(i) /\ cart[i] = 0
    /\ i \in Reward => known[i] > 0
    /\ Put(i)
    /\ UNCHANGED <<server, lists, asked, choice, followed, editing, review, run, submitting,
                   history>>

Increment(i) ==
    /\ Browsing /\ focus = {} /\ InView(i) /\ i \in Reward \cap InCart
    /\ cart[i] + 1 <= known[i]
    /\ cart' = [cart EXCEPT ![i] = @ + 1]
    /\ UNCHANGED <<server, lists, asked, choice, followed, editing, review, run, submitting,
                   history>>

Decrement(i) ==
    /\ Browsing /\ focus = {} /\ InView(i) /\ i \in Reward \cap InCart
    /\ cart' = [cart EXCEPT ![i] = @ - 1]
    /\ IF cart[i] = 1 THEN Forget({i}) ELSE UNCHANGED <<linked, lost>>
    /\ UNCHANGED <<server, lists, asked, choice, followed, editing, review, run, submitting, cleared>>

TakeOut(i) == cart' = [cart EXCEPT ![i] = 0] /\ Forget({i})

RemoveItem(i) ==
    /\ focus = {} /\ i \in InCart
    /\ drawer \/ InView(i)
    /\ TakeOut(i)
    /\ UNCHANGED <<server, lists, asked, choice, followed, editing, review, run, submitting, cleared>>

\* Typing an amount: once the item is in the cart, a pause in typing syncs it.
Edit(i) ==
    /\ Browsing /\ focus \subseteq {i} /\ InView(i) /\ i \notin Reward
    /\ focus' = {i}
    /\ timer' = IF i \in InCart THEN timer \cup {i} ELSE timer
    /\ UNCHANGED <<server, lists, asked, cart, choice, followed, review, run, submitting, history>>

Pause(i) ==
    /\ i \in timer /\ timer' = timer \ {i}
    /\ Put(i)
    /\ cleared' = cleared \ {i} /\ lost' = lost \cup ({i} \ InCart)
    /\ UNCHANGED <<server, lists, asked, choice, followed, focus, review, run, submitting, linked>>

BlurClears_Not(i) == timer
BlurClears(i) == timer \ {i}

\* Leaving the field syncs a waiting edit at once, if the item is still in the cart.
Blur(i) ==
    /\ focus = {i} /\ focus' = {}
    /\ timer' = BlurClears(i)
    /\ IF i \in timer /\ i \in InCart THEN Put(i) ELSE UNCHANGED cart
    /\ cleared' = cleared \ {i}
    /\ UNCHANGED <<server, lists, asked, choice, followed, review, run, submitting, linked, lost>>

-----------------------------------------------------------------------------
(* Channels.                                                               *)

\* itemChannelId: an item the lists do not hold counts as shared.
HomeOf(i) == IF i \in OnScreen THEN Home[i] ELSE NoChannel
Conflict(c) == \E i \in InCart : HomeOf(i) \notin {NoChannel, c}
Choose(c) ==
    \/ c = selected /\ UNCHANGED choice
    \/ c # selected /\ Conflict(c) /\ pending' = c /\ UNCHANGED selected
    \/ c # selected /\ ~Conflict(c) /\ selected' = c /\ UNCHANGED pending

\* A button of the picker, or a link that names a Channel.
SelectChannel(c) ==
    /\ loaded /\ ~drawer /\ focus = {} /\ c # selected
    /\ Choose(c)
    /\ UNCHANGED <<server, lists, asked, cart, followed, editing, review, run, submitting, history>>

Keeps_All(i, c) == TRUE
Keeps(i, c) == HomeOf(i) \in {NoChannel, c}

ConfirmSwitch ==
    /\ pending # NoChannel /\ focus = {}
    /\ cart' = [i \in Item |-> IF Keeps(i, pending) THEN cart[i] ELSE 0]
    /\ Forget({i \in Item : cart'[i] = 0})
    /\ selected' = pending /\ pending' = NoChannel
    /\ UNCHANGED <<server, lists, asked, followed, editing, review, run, submitting, cleared>>

CancelSwitch ==
    /\ pending # NoChannel /\ focus = {} /\ pending' = NoChannel
    /\ UNCHANGED <<server, lists, asked, cart, selected, followed, editing, review, run,
                   submitting, history>>

OpensDrawer ==
    /\ drawer' = TRUE
    /\ IF drawer THEN UNCHANGED <<phase, ack, issues>>
       ELSE phase' = "idle" /\ ack' = FALSE /\ issues' = {}

\* A permalink selects the item's Channel, or asks to, and adds it either way.
Follow(i) ==
    /\ loaded /\ focus = {} /\ i \in (Link \cap OnScreen) \ followed /\ known[i] > 0
    /\ followed' = followed \cup {i}
    /\ IF Home[i] = NoChannel THEN UNCHANGED choice ELSE Choose(Home[i])
    /\ Put(i) /\ linked' = linked \cup {i}
    /\ OpensDrawer
    /\ UNCHANGED <<server, lists, asked, editing, run, submitting, cleared, lost>>

-----------------------------------------------------------------------------
(* The drawer and its checkout.                                            *)

OpenDrawer ==
    /\ ~drawer /\ focus = {} /\ OpensDrawer
    /\ UNCHANGED <<server, lists, asked, cart, choice, followed, editing, run, submitting, history>>

\* What it shows is forgotten when it opens again: here, when it closes.
CloseDrawer ==
    /\ drawer /\ drawer' = FALSE /\ phase' = "idle" /\ ack' = FALSE /\ issues' = {}
    /\ UNCHANGED <<server, lists, asked, cart, choice, followed, editing, run, submitting, history>>

\* runCheckout keeps the cart, the Channel and the acknowledgement of its render.
Starts(r) ==
    /\ run[r].stage = "none"
    /\ run' = [run EXCEPT ![r] =
           [stage |-> "checking", cart |-> cart, channel |-> selected, ack |-> ack,
            fresh |-> Now]]
    /\ phase' = "checking"

CanCheckOut == ~submitting /\ phase # "checking" /\ selected # NoChannel /\ InCart # {}

ClickCheckout(r) ==
    /\ drawer /\ CanCheckOut /\ Starts(r)
    /\ UNCHANGED <<server, lists, asked, cart, choice, followed, editing, drawer, ack, issues,
                   submitting, history>>

SkipNudge(r) ==
    /\ drawer /\ phase = "nudge" /\ Starts(r) /\ ack' = TRUE
    /\ UNCHANGED <<server, lists, asked, cart, choice, followed, editing, drawer, issues,
                   submitting, history>>

Fillable(items, fresh) == \A i \in Item : items[i] > 0 => i \in fresh.listed /\ items[i] <= fresh.left[i]
Unavailable(r) ==
    {i \in Item : run[r].cart[i] > 0 /\ (i \notin run[r].fresh.listed
                                         \/ run[r].cart[i] > run[r].fresh.left[i])}

Sent_Current(r) == cart
Sent(r) == run[r].cart

\* The revalidation replaces the lists and looks at the cart of the click.  Then
\* the drawer shows issues, or asks to look at what was not visited, or posts;
\* without an email it only says so.
Revalidated(r) ==
    /\ run[r].stage = "checking"
    /\ shown' \in SetToSeqs(run[r].fresh.listed)
    /\ known' = Update(run[r].fresh)
    /\ Missing(shown')
    /\ \/ /\ Unavailable(r) # {}
          /\ issues' = Unavailable(r) /\ phase' = "issues"
          /\ run' = [run EXCEPT ![r] = Ended] /\ UNCHANGED submitting
       \/ /\ Unavailable(r) = {} /\ ~run[r].ack
          /\ phase' = "nudge"
          /\ run' = [run EXCEPT ![r] = Ended] /\ UNCHANGED <<submitting, issues>>
       \/ /\ Unavailable(r) = {}
          /\ phase' = "idle" /\ submitting' = TRUE
          /\ run' = [run EXCEPT ![r] = [@ EXCEPT !.stage = "posting", !.cart = Sent(r),
                                                       !.ack = FALSE]]
          /\ UNCHANGED issues
       \/ /\ Unavailable(r) = {}
          /\ phase' = "idle"
          /\ run' = [run EXCEPT ![r] = Ended] /\ UNCHANGED <<submitting, issues>>
    /\ UNCHANGED <<server, asked, loaded, stale, cart, choice, followed, editing, drawer, ack,
                   cleared, linked>>

\* Nothing catches a revalidation that fails: the drawer stays "checking" until it
\* is closed and opened.
RevalidationFails(r) ==
    /\ run[r].stage = "checking"
    /\ run' = [run EXCEPT ![r] = Ended]
    /\ UNCHANGED <<server, lists, asked, cart, choice, followed, editing, review, submitting,
                   history>>

\* createPledge validates against live data and refuses a mixed cart.
Accepts(items, c) ==
    /\ Fillable(items, Now)
    /\ \A i \in Item : items[i] > 0 => Home[i] \in {NoChannel, c}

Serve(r) ==
    LET answer == IF Accepts(run[r].cart, run[r].channel) THEN "accepted" ELSE "refused"
    IN  /\ run[r].stage = "posting"
        /\ run' = [run EXCEPT ![r] = [Ended EXCEPT !.stage = answer]]
        /\ UNCHANGED <<server, lists, asked, cart, choice, followed, editing, review, submitting,
                       history>>

\* The pledge is made: the cart is cleared, then the browser leaves for Stripe.
Cleared(r) ==
    /\ run[r].stage = "accepted"
    /\ run' = [run EXCEPT ![r] = Ended]
    /\ submitting' = FALSE
    /\ cart' = Empty /\ cleared' = cleared \cup (timer \cap InCart) /\ Forget(Item)
    /\ UNCHANGED <<server, lists, asked, choice, followed, editing, review>>

\* Refused, or the answer is lost: the donor sees an error and keeps the cart, even if
\* a pledge was made of it.
CheckoutFails(r) ==
    /\ run[r].stage \in {"posting", "accepted", "refused"}
    /\ run' = [run EXCEPT ![r] = Ended]
    /\ submitting' = FALSE
    /\ UNCHANGED <<server, lists, asked, cart, choice, followed, editing, review, history>>

RemoveIssue(i) ==
    /\ drawer /\ phase = "issues" /\ i \in issues
    /\ TakeOut(i)
    /\ issues' = issues \ {i}
    /\ phase' = IF issues' = {} THEN "idle" ELSE phase
    /\ UNCHANGED <<server, lists, asked, choice, followed, editing, drawer, ack, run, submitting,
                   cleared>>

\* The page is loaded again: sessionStorage keeps the cart and the Channel.
Reload ==
    /\ loaded
    /\ loaded' = FALSE /\ asked' = {} /\ shown' = << >> /\ known' = Empty /\ stale' = {}
    /\ pending' = NoChannel /\ followed' = {} /\ focus' = {} /\ timer' = {}
    /\ drawer' = FALSE /\ phase' = "idle" /\ ack' = FALSE /\ issues' = {}
    /\ run' = [r \in Run |-> Ended]
    /\ submitting' = FALSE /\ cleared' = {}
    /\ UNCHANGED <<server, cart, selected, linked, lost>>

-----------------------------------------------------------------------------
Checkout(r) ==
    \/ ClickCheckout(r) \/ SkipNudge(r)
    \/ Revalidated(r) \/ RevalidationFails(r)
    \/ Serve(r) \/ Cleared(r) \/ CheckoutFails(r)

CartNext ==
    \/ \E i \in Item :
           \/ Change(i) \/ Add(i) \/ Increment(i) \/ Decrement(i) \/ RemoveItem(i)
           \/ Edit(i) \/ Pause(i) \/ Blur(i) \/ Follow(i) \/ RemoveIssue(i)
    \/ Ask \/ \E fresh \in asked : Refresh(fresh) \/ LoadFails(fresh)
    \/ \E c \in Channels : SelectChannel(c)
    \/ ConfirmSwitch \/ CancelSwitch \/ OpenDrawer \/ CloseDrawer \/ Reload
    \/ \E r \in Run : Checkout(r)

CartSpec == CartInit /\ [][CartNext]_cartVars

-----------------------------------------------------------------------------
(* Properties.                                                             *)

\* A background refresh never takes what is in the cart off the screen, never
\* reorders what is there, and marks what the server no longer lists: a donor's
\* selection "is never yanked out from under them".
SelectionKept ==
    [][\A fresh \in asked \ asked' :
           loaded /\ loaded' /\ <<known, shown, stale>>' # <<known, shown, stale>> =>
               /\ OnScreen \cap InCart \subseteq Range(shown')
               /\ IsPrefix(Only(shown, Range(shown')), shown')
               /\ (OnScreen \cap InCart) \ fresh.listed = stale']_cartVars

\* A debounced edit waits for an item of the cart, or for one that a checkout cleared:
\* what the donor removed does not come back when the timer fires.
EditsStayInCart == \A i \in timer : i \in InCart \cup cleared

\* Whatever is added, closed or sold while a checkout is under way, it posts only
\* what the answer to its own click could fill.
PostsWhatItChecked ==
    \A r \in Run : run[r].stage = "posting" =>
        Fillable(run[r].cart, run[r].fresh)

\* With no switch pending, an item of the cart is shared or belongs to the selected
\* Channel, unless it came by a permalink or the lists have lost sight of it.
OneChannel ==
    pending = NoChannel =>
        \A i \in InCart \ (linked \cup lost) : Home[i] \in {NoChannel, selected}

\* Only the amount that is being typed can wait to be synced, and nobody types while
\* the drawer is open.
FocusInv ==
    /\ timer \subseteq focus
    /\ drawer => focus = {}

\* A switch is asked for on a page that has loaded; there the lists hold the cart but
\* for what is lost; and what is not shared, linked or lost is of the selected Channel,
\* whether or not a switch is pending.
SightInv ==
    /\ pending # NoChannel => loaded
    /\ loaded => InCart \ OnScreen \subseteq lost
    /\ \A i \in InCart \ (linked \cup lost) : Home[i] \in {NoChannel, selected}

\* With the types, the inductive invariant of the cart.
CartInv == FocusInv /\ EditsStayInCart /\ SightInv /\ PostsWhatItChecked

\* "A cart therefore can never mix incentives from two different channels."  It
\* does not hold with permalinks or lost items (README, divergences).
NeverMixed ==
    pending = NoChannel =>
        \A i, j \in InCart : Home[i] # NoChannel /\ Home[j] # NoChannel => Home[i] = Home[j]
=============================================================================
