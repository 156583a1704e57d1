------------------------------ MODULE Identity -------------------------------
(***************************************************************************)
(* Events, their Channels, the slugs the two share, and the routing of     *)
(* donations to them (services/events.ts, services/channels.ts,            *)
(* lib/slugs.ts, services/routing.ts, ADR-0008).  Admins and moderators    *)
(* mount the same handlers, and each handler is one transaction of a       *)
(* single-connection database: one step.                                   *)
(*                                                                         *)
(* A field that a request leaves out is a field it sets to the value it    *)
(* has; the one place where that differs is named there.  A slug the       *)
(* server derives from a name is some slug that is free.                   *)
(***************************************************************************)
EXTENDS Naturals, FiniteSets

CONSTANTS Event, Channel, Slug, Donation, None

ASSUME NoneAssumption == None \notin Event \cup Channel \cup Slug

VARIABLES
    events,     \* Event rows
    evActive,   \* Event.is_active
    evSlug,     \* Event.slug
    evPrimary,  \* Event.primary_channel_id
    channels,   \* Channel rows
    chActive,   \* Channel.is_active
    chSlug,     \* Channel.slug
    chEvent,    \* Channel.event_id
    donations,  \* Donation rows
    dChannel,   \* Donation.channel_id
    dEvent,     \* Donation.event_id
    announced   \* history: `donation.created` messages queued for a donation

evVars == <<events, evActive, evSlug, evPrimary>>
chVars == <<channels, chActive, chSlug, chEvent>>
dVars == <<donations, dChannel, dEvent, announced>>
vars == <<events, evActive, evSlug, evPrimary, channels, chActive, chSlug, chEvent,
          donations, dChannel, dEvent, announced>>

TypeOK ==
    /\ events \subseteq Event /\ channels \subseteq Channel /\ donations \subseteq Donation
    /\ evActive \in [Event -> BOOLEAN] /\ chActive \in [Channel -> BOOLEAN]
    /\ evSlug \in [Event -> Slug \cup {None}] /\ chSlug \in [Channel -> Slug \cup {None}]
    /\ evPrimary \in [Event -> channels \cup {None}]
    /\ chEvent \in [Channel -> events \cup {None}]
    /\ \A c \in channels : chEvent[c] \in events /\ chSlug[c] \in Slug
    /\ \A e \in events : evSlug[e] \in Slug
    /\ \A e \in Event \ events : ~evActive[e] /\ evPrimary[e] = None
    /\ dChannel \in [Donation -> channels \cup {None}]
    /\ dEvent \in [Donation -> events \cup {None}]
    /\ announced \in [Donation -> Nat]

\* The migration leaves one inactive Event.
Init ==
    /\ \E e \in Event, g \in Slug :
          /\ events = {e}
          /\ evSlug = [f \in Event |-> IF f = e THEN g ELSE None]
    /\ evActive = [e \in Event |-> FALSE]
    /\ evPrimary = [e \in Event |-> None]
    /\ channels = {}
    /\ chActive = [c \in Channel |-> FALSE]
    /\ chSlug = [c \in Channel |-> None]
    /\ chEvent = [c \in Channel |-> None]
    /\ donations = {}
    /\ dChannel = [n \in Donation |-> None]
    /\ dEvent = [n \in Donation |-> None]
    /\ announced = [n \in Donation |-> 0]

-----------------------------------------------------------------------------
(* Slugs.                                                                  *)

\* Mutant: only the table of the new row is searched, as a unique index would.
Available_Events(g) == \A e \in events : evSlug[e] # g

\* isSlugAvailable, for a row that does not have the slug yet.
Available(g) == /\ \A e \in events : evSlug[e] # g
                /\ \A c \in channels : chSlug[c] # g

\* Overlays and links use the slug of what is active.
MayRename(isActive) == ~isActive

-----------------------------------------------------------------------------
(* Events.                                                                 *)

\* createEvent.
CreateEvent(e, g) ==
    /\ e \in Event \ events
    /\ g \in Slug /\ Available(g)
    /\ events' = events \cup {e}
    /\ evSlug' = [evSlug EXCEPT ![e] = g]
    /\ UNCHANGED <<evActive, evPrimary, chVars, dVars>>

\* assertCanActivateEvent, for the primary Channel p.
CanActivate(e, p) == p # None /\ chEvent[p] = e /\ chActive[p]

\* Mutant: the id is written as the request has it.
UsablePrimary_Unchecked(e, p) == \A f \in events : evPrimary[f] # p

\* What updateEvent asks of a primary Channel it is given, and the unique index
\* on primary_channel_id.
UsablePrimary(e, p) ==
    /\ p \in channels /\ chEvent[p] = e
    /\ \A f \in events : evPrimary[f] # p

\* updateEvent and deactivateEvent.  A primary Channel that the request does not
\* name is not checked, unless the Event ends up active.
UpdateEvent(e, g, p, isActive) ==
    /\ e \in events
    /\ g # evSlug[e] => MayRename(evActive[e]) /\ Available(g)
    /\ p # evPrimary[e] => IF p = None THEN ~isActive ELSE UsablePrimary(e, p)
    /\ isActive => CanActivate(e, p)
    /\ evSlug' = [evSlug EXCEPT ![e] = g]
    /\ evPrimary' = [evPrimary EXCEPT ![e] = p]
    /\ evActive' = [evActive EXCEPT ![e] = isActive]
    /\ UNCHANGED <<events, chVars, dVars>>

-----------------------------------------------------------------------------
(* Channels.                                                               *)

\* createChannel: without an Event it joins the only one there is (resolveEventId).
CreateChannel(c, e, g, isActive) ==
    /\ c \in Channel \ channels
    /\ e \in events
    /\ g \in Slug /\ Available(g)
    /\ channels' = channels \cup {c}
    /\ chEvent' = [chEvent EXCEPT ![c] = e]
    /\ chSlug' = [chSlug EXCEPT ![c] = g]
    /\ chActive' = [chActive EXCEPT ![c] = isActive]
    /\ UNCHANGED <<evVars, dVars>>

\* Mutant: the check is missing.
Guarded_Never(c) == FALSE

\* activeEventWithPrimary finds an Event.
Guarded(c) == \E e \in events : evActive[e] /\ evPrimary[e] = c

\* updateChannel and deactivateChannel.
UpdateChannel(c, e, g, isActive) ==
    /\ c \in channels /\ e \in events
    /\ g # chSlug[c] => MayRename(chActive[c]) /\ Available(g)
    /\ (e # chEvent[c] \/ (chActive[c] /\ ~isActive)) => ~Guarded(c)
    /\ chEvent' = [chEvent EXCEPT ![c] = e]
    /\ chSlug' = [chSlug EXCEPT ![c] = g]
    /\ chActive' = [chActive EXCEPT ![c] = isActive]
    /\ UNCHANGED <<channels, evVars, dVars>>

-----------------------------------------------------------------------------
(* Donations.                                                              *)

Route(c, e) == [channel |-> c, event |-> e]
Unassigned == Route(None, None)
ActiveEvents == {e \in events : evActive[e]}

\* Mutant: the only Event takes it, active or not.
DefaultEvents_All == events

\* The Events a donation that names nothing may go to.
DefaultEvents == ActiveEvents

\* resolveDonationRoute, for a donation that names a Channel, an Event or nothing.
RouteOf(c, e) ==
    IF c # None THEN Route(c, chEvent[c])
    ELSE IF e # None
         THEN IF evPrimary[e] = None THEN Unassigned ELSE Route(evPrimary[e], e)
         ELSE IF \E f \in DefaultEvents : DefaultEvents = {f}
              THEN LET f == CHOOSE f \in DefaultEvents : TRUE IN Route(evPrimary[f], f)
              ELSE Unassigned

\* publishRoutedDonation queues the message; an unassigned donation has none.
Record(n, r) ==
    /\ dChannel' = [dChannel EXCEPT ![n] = r.channel]
    /\ dEvent' = [dEvent EXCEPT ![n] = r.event]
    /\ announced' = [announced EXCEPT ![n] = IF r = Unassigned THEN @ ELSE @ + 1]
    /\ UNCHANGED <<evVars, chVars>>

\* processDonation, once per external id.
Donate(n, c, e) ==
    /\ n \notin donations
    /\ c \in channels \cup {None} /\ e \in events \cup {None}
    /\ donations' = donations \cup {n}
    /\ Record(n, RouteOf(c, e))

\* Mutant: an assigned donation can be assigned again.
Assignable_Again(n) == n \in donations

Assignable(n) == n \in donations /\ dChannel[n] = None /\ dEvent[n] = None

\* assignDonationChannel.
Assign(n, c) ==
    /\ Assignable(n)
    /\ c \in channels
    /\ UNCHANGED donations
    /\ Record(n, RouteOf(c, None))

-----------------------------------------------------------------------------
Next ==
    \/ \E e \in Event, g \in Slug : CreateEvent(e, g)
    \/ \E e \in Event, g \in Slug, p \in Channel \cup {None}, a \in BOOLEAN :
          UpdateEvent(e, g, p, a)
    \/ \E c \in Channel, e \in Event, g \in Slug, a \in BOOLEAN :
          CreateChannel(c, e, g, a) \/ UpdateChannel(c, e, g, a)
    \/ \E n \in Donation, c \in Channel \cup {None}, e \in Event \cup {None} : Donate(n, c, e)
    \/ \E n \in Donation, c \in Channel : Assign(n, c)

Spec == Init /\ [][Next]_vars

-----------------------------------------------------------------------------
\* ADR-0008, primary Channel: an active Event always has a primary Channel, active
\* and its own, whatever order Events and Channels are edited in.
ActiveEventRoutable ==
    \A e \in events : evActive[e] =>
        LET p == evPrimary[e] IN p \in channels /\ chEvent[p] = e /\ chActive[p]

\* ADR-0008, slug rules: unique across Events and Channels, which no index can keep.
SlugsUnique ==
    /\ \A e, f \in events : e # f => evSlug[e] # evSlug[f]
    /\ \A c, b \in channels : c # b => chSlug[c] # chSlug[b]
    /\ \A e \in events, c \in channels : evSlug[e] # chSlug[c]

\* PRD-0002 E6: a donation is announced once it is routed, and never again.
AnnouncedOnce ==
    \A n \in Donation : announced[n] = IF dChannel[n] = None /\ dEvent[n] = None THEN 0 ELSE 1

\* Inductive: and a donation that is not recorded yet has been nowhere.
DonationInv ==
    /\ AnnouncedOnce
    /\ \A n \in Donation \ donations : dChannel[n] = None /\ dEvent[n] = None

\* ADR-0008: the slug of what is active, and stays so or not, does not change.
SlugFixedWhileActive ==
    [][/\ \A e \in events : evActive[e] => evSlug'[e] = evSlug[e]
       /\ \A c \in channels : chActive[c] => chSlug'[c] = chSlug[c]]_vars

\* A donation that a step routes gets a Channel, one of the Event when the Event is
\* active, and is never routed again, wherever its Channel moves later.
RoutedSoundly ==
    [][\A n \in Donation :
          \/ dChannel'[n] = dChannel[n] /\ dEvent'[n] = dEvent[n]
          \/ /\ dChannel[n] = None /\ dEvent[n] = None
             /\ dChannel'[n] # None
             /\ dEvent'[n] \in ActiveEvents => chEvent[dChannel'[n]] = dEvent'[n]]_vars

\* schema.prisma on primary_channel_id: "Must be one of `channels`" of the Event.
\* It does not hold for an inactive Event (README, divergences).
PrimaryIsOwn == \A e \in events : evPrimary[e] # None => chEvent[evPrimary[e]] = e
=============================================================================
