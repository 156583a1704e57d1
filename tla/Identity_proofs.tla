--------------------------- MODULE Identity_proofs ---------------------------
(***************************************************************************)
(* Proofs about Identity for every set of Events, Channels, slugs and      *)
(* donations, and about Cart, which is filled under those Channels, for    *)
(* every finite set of items and every set of permalinks and checkouts.    *)
(*                                                                         *)
(* The two share no name: a cart holds what the server lists, whichever    *)
(* Channels there are by then.                                             *)
(***************************************************************************)
EXTENDS Identity, Cart, SumTheorems, SequenceTheorems, TLAPS

LEMMA NextCases ==
    ASSUME NEW P, [Next]_vars,
           \A e \in Event, g \in Slug : CreateEvent(e, g) => P,
           \A e \in Event, g \in Slug, p \in Channel \cup {None}, a \in BOOLEAN :
              UpdateEvent(e, g, p, a) => P,
           \A c \in Channel, e \in Event, g \in Slug, a \in BOOLEAN :
              CreateChannel(c, e, g, a) => P,
           \A c \in Channel, e \in Event, g \in Slug, a \in BOOLEAN :
              UpdateChannel(c, e, g, a) => P,
           \A n \in Donation, c \in Channel \cup {None}, e \in Event \cup {None} :
              Donate(n, c, e) => P,
           \A n \in Donation, c \in Channel : Assign(n, c) => P,
           UNCHANGED vars => P
    PROVE  P
  BY DEF Next

\* A donation is routed to rows that exist.
LEMMA RouteTypes ==
    ASSUME TypeOK, NEW c \in channels \cup {None}, NEW e \in events \cup {None}
    PROVE  /\ RouteOf(c, e).channel \in channels \cup {None}
           /\ RouteOf(c, e).event \in events \cup {None}
<1> DEFINE only == CHOOSE f \in DefaultEvents : TRUE
<1>1. \A x, y : Route(x, y).channel = x /\ Route(x, y).event = y
  BY DEF Route
<1>2. \A f \in events : evPrimary[f] \in channels \cup {None}
  BY DEF TypeOK
<1>3. CASE c # None
  BY <1>1, <1>3 DEF RouteOf, TypeOK
<1>4. CASE c = None /\ e # None
  BY <1>1, <1>2, <1>4 DEF RouteOf, Unassigned
<1>5. CASE c = None /\ e = None
  <2>1. CASE \E f \in DefaultEvents : DefaultEvents = {f}
    <3>1. only \in events
      BY <2>1 DEF DefaultEvents, ActiveEvents
    <3>2. RouteOf(c, e) = Route(evPrimary[only], only)
      BY <1>5, <2>1 DEF RouteOf
    <3> QED
      BY <1>1, <1>2, <3>1, <3>2
  <2>2. CASE ~\E f \in DefaultEvents : DefaultEvents = {f}
    BY <1>1, <1>5, <2>2 DEF RouteOf, Unassigned
  <2> QED
    BY <2>1, <2>2
<1> QED
  BY <1>3, <1>4, <1>5

LEMMA RecordTypes ==
    ASSUME TypeOK, NEW n \in Donation, NEW c \in channels \cup {None},
           NEW e \in events \cup {None}, Record(n, RouteOf(c, e)),
           donations' \subseteq Donation
    PROVE  TypeOK'
<1> DEFINE r == RouteOf(c, e)
<1>1. r.channel \in channels \cup {None} /\ r.event \in events \cup {None}
  BY RouteTypes
<1> HIDE DEF r
<1>2. UNCHANGED <<evVars, chVars>>
  BY DEF Record
<1>3. dChannel' \in [Donation -> channels \cup {None}]
  BY <1>1 DEF TypeOK, Record, r
<1>4. dEvent' \in [Donation -> events \cup {None}]
  BY <1>1 DEF TypeOK, Record, r
<1>5. announced' \in [Donation -> Nat]
  BY DEF TypeOK, Record
<1> QED
  BY <1>2, <1>3, <1>4, <1>5 DEF TypeOK, evVars, chVars

LEMMA TypeStep ==
    ASSUME TypeOK, [Next]_vars
    PROVE  TypeOK'
<1> USE NoneAssumption
<1>1. \A e \in Event, g \in Slug : CreateEvent(e, g) => TypeOK'
  <2> SUFFICES ASSUME NEW e \in Event, NEW g \in Slug, CreateEvent(e, g) PROVE TypeOK'
    OBVIOUS
  <2>1. /\ events' = events \cup {e} /\ evSlug' = [evSlug EXCEPT ![e] = g]
        /\ UNCHANGED <<evActive, evPrimary, channels, chActive, chSlug, chEvent,
                       donations, dChannel, dEvent, announced>>
    BY DEF CreateEvent, chVars, dVars
  <2>2. evSlug' \in [Event -> Slug \cup {None}] /\ \A f \in events' : evSlug'[f] \in Slug
    BY <2>1 DEF TypeOK
  <2> QED
    BY <2>1, <2>2 DEF TypeOK
<1>2. \A e \in Event, g \in Slug, p \in Channel \cup {None}, a \in BOOLEAN :
         UpdateEvent(e, g, p, a) => TypeOK'
  <2> SUFFICES ASSUME NEW e \in Event, NEW g \in Slug, NEW p \in Channel \cup {None},
                      NEW a \in BOOLEAN, UpdateEvent(e, g, p, a)
               PROVE  TypeOK'
    OBVIOUS
  <2>1. /\ evSlug' = [evSlug EXCEPT ![e] = g]
        /\ evPrimary' = [evPrimary EXCEPT ![e] = p]
        /\ evActive' = [evActive EXCEPT ![e] = a]
        /\ e \in events
        /\ UNCHANGED <<events, channels, chActive, chSlug, chEvent,
                       donations, dChannel, dEvent, announced>>
    BY DEF UpdateEvent, chVars, dVars
  <2>2. p \in channels \cup {None}
    BY DEF UpdateEvent, UsablePrimary, TypeOK
  <2>3. evSlug' \in [Event -> Slug \cup {None}] /\ \A f \in events' : evSlug'[f] \in Slug
    BY <2>1 DEF TypeOK
  <2>4. evPrimary' \in [Event -> channels' \cup {None}]
    BY <2>1, <2>2 DEF TypeOK
  <2>5. evActive' \in [Event -> BOOLEAN]
    BY <2>1 DEF TypeOK
  <2>6. \A f \in Event \ events' : ~evActive'[f] /\ evPrimary'[f] = None
    BY <2>1 DEF TypeOK
  <2> QED
    BY <2>1, <2>3, <2>4, <2>5, <2>6 DEF TypeOK
<1>3. \A c \in Channel, e \in Event, g \in Slug, a \in BOOLEAN :
         CreateChannel(c, e, g, a) => TypeOK'
  <2> SUFFICES ASSUME NEW c \in Channel, NEW e \in Event, NEW g \in Slug, NEW a \in BOOLEAN,
                      CreateChannel(c, e, g, a)
               PROVE  TypeOK'
    OBVIOUS
  <2>1. /\ channels' = channels \cup {c} /\ e \in events
        /\ chEvent' = [chEvent EXCEPT ![c] = e]
        /\ chSlug' = [chSlug EXCEPT ![c] = g]
        /\ chActive' = [chActive EXCEPT ![c] = a]
        /\ UNCHANGED <<events, evActive, evSlug, evPrimary,
                       donations, dChannel, dEvent, announced>>
    BY DEF CreateChannel, evVars, dVars
  <2>2. chEvent' \in [Channel -> events' \cup {None}] /\ chActive' \in [Channel -> BOOLEAN]
    BY <2>1 DEF TypeOK
  <2>3. chSlug' \in [Channel -> Slug \cup {None}]
    BY <2>1 DEF TypeOK
  <2>4. \A b \in channels' : chEvent'[b] \in events' /\ chSlug'[b] \in Slug
    BY <2>1 DEF TypeOK
  <2>5. /\ evPrimary' \in [Event -> channels' \cup {None}]
        /\ dChannel' \in [Donation -> channels' \cup {None}]
    BY <2>1 DEF TypeOK
  <2> QED
    BY <2>1, <2>2, <2>3, <2>4, <2>5 DEF TypeOK
<1>4. \A c \in Channel, e \in Event, g \in Slug, a \in BOOLEAN :
         UpdateChannel(c, e, g, a) => TypeOK'
  <2> SUFFICES ASSUME NEW c \in Channel, NEW e \in Event, NEW g \in Slug, NEW a \in BOOLEAN,
                      UpdateChannel(c, e, g, a)
               PROVE  TypeOK'
    OBVIOUS
  <2>1. /\ c \in channels /\ e \in events
        /\ chEvent' = [chEvent EXCEPT ![c] = e]
        /\ chSlug' = [chSlug EXCEPT ![c] = g]
        /\ chActive' = [chActive EXCEPT ![c] = a]
        /\ UNCHANGED <<channels, events, evActive, evSlug, evPrimary,
                       donations, dChannel, dEvent, announced>>
    BY DEF UpdateChannel, evVars, dVars
  <2>2. chEvent' \in [Channel -> events' \cup {None}] /\ chActive' \in [Channel -> BOOLEAN]
    BY <2>1 DEF TypeOK
  <2>3. chSlug' \in [Channel -> Slug \cup {None}]
    BY <2>1 DEF TypeOK
  <2>4. \A b \in channels' : chEvent'[b] \in events' /\ chSlug'[b] \in Slug
    BY <2>1 DEF TypeOK
  <2> QED
    BY <2>1, <2>2, <2>3, <2>4 DEF TypeOK
<1>5. \A n \in Donation, c \in Channel \cup {None}, e \in Event \cup {None} :
         Donate(n, c, e) => TypeOK'
  BY RecordTypes DEF Donate, TypeOK
<1>6. \A n \in Donation, c \in Channel : Assign(n, c) => TypeOK'
  BY RecordTypes DEF Assign, TypeOK
<1>7. UNCHANGED vars => TypeOK'
  BY DEF TypeOK, vars
<1> QED
  BY <1>1, <1>2, <1>3, <1>4, <1>5, <1>6, <1>7, NextCases

\* Every variable keeps its type: no row points to a row that does not exist.
THEOREM TypeCorrect == Spec => []TypeOK
<1>1. Init => TypeOK
  BY NoneAssumption DEF Init, TypeOK
<1> QED
  BY <1>1, TypeStep, PTL DEF Spec

-----------------------------------------------------------------------------
\* An active Event keeps an active primary Channel of its own (updateEvent checks
\* it when the Event changes, updateChannel when the Channel does).
THEOREM RoutableCorrect == Spec => []ActiveEventRoutable
<1>1. Init => ActiveEventRoutable
  BY DEF Init, ActiveEventRoutable
<1>2. TypeOK /\ ActiveEventRoutable /\ [Next]_vars => ActiveEventRoutable'
  <2> SUFFICES ASSUME TypeOK, ActiveEventRoutable, [Next]_vars PROVE ActiveEventRoutable'
    OBVIOUS
  <2>1. \A e \in Event, g \in Slug : CreateEvent(e, g) => ActiveEventRoutable'
    BY DEF CreateEvent, TypeOK, ActiveEventRoutable, chVars
  <2>2. \A e \in Event, g \in Slug, p \in Channel \cup {None}, a \in BOOLEAN :
           UpdateEvent(e, g, p, a) => ActiveEventRoutable'
    <3> SUFFICES ASSUME NEW e \in Event, NEW g \in Slug, NEW p \in Channel \cup {None},
                        NEW a \in BOOLEAN, UpdateEvent(e, g, p, a)
                 PROVE  ActiveEventRoutable'
      OBVIOUS
    <3>1. a => p \in channels
      BY DEF UpdateEvent, CanActivate, UsablePrimary, TypeOK
    <3> QED
      BY <3>1 DEF UpdateEvent, CanActivate, TypeOK, ActiveEventRoutable, chVars
  <2>3. \A c \in Channel, e \in Event, g \in Slug, a \in BOOLEAN :
           CreateChannel(c, e, g, a) => ActiveEventRoutable'
    BY DEF CreateChannel, TypeOK, ActiveEventRoutable, evVars
  <2>4. \A c \in Channel, e \in Event, g \in Slug, a \in BOOLEAN :
           UpdateChannel(c, e, g, a) => ActiveEventRoutable'
    BY DEF UpdateChannel, Guarded, TypeOK, ActiveEventRoutable, evVars
  <2>5. \A n \in Donation, c \in Channel \cup {None}, e \in Event \cup {None} :
           Donate(n, c, e) => ActiveEventRoutable'
    BY DEF Donate, Record, ActiveEventRoutable, evVars, chVars
  <2>6. \A n \in Donation, c \in Channel : Assign(n, c) => ActiveEventRoutable'
    BY DEF Assign, Record, ActiveEventRoutable, evVars, chVars
  <2>7. UNCHANGED vars => ActiveEventRoutable'
    BY DEF vars, ActiveEventRoutable
  <2> QED
    BY <2>1, <2>2, <2>3, <2>4, <2>5, <2>6, <2>7, NextCases
<1> QED
  BY <1>1, <1>2, TypeCorrect, PTL DEF Spec

\* No two rows of the two tables ever share a slug (isSlugAvailable is asked before
\* every write of one, in the same transaction).
THEOREM SlugsCorrect == Spec => []SlugsUnique
<1>1. Init => SlugsUnique
  BY DEF Init, SlugsUnique
<1>2. TypeOK /\ SlugsUnique /\ [Next]_vars => SlugsUnique'
  <2> SUFFICES ASSUME TypeOK, SlugsUnique, [Next]_vars PROVE SlugsUnique'
    OBVIOUS
  <2>1. \A e \in Event, g \in Slug : CreateEvent(e, g) => SlugsUnique'
    BY DEF CreateEvent, Available, TypeOK, SlugsUnique, chVars
  <2>2. \A e \in Event, g \in Slug, p \in Channel \cup {None}, a \in BOOLEAN :
           UpdateEvent(e, g, p, a) => SlugsUnique'
    BY DEF UpdateEvent, Available, TypeOK, SlugsUnique, chVars
  <2>3. \A c \in Channel, e \in Event, g \in Slug, a \in BOOLEAN :
           CreateChannel(c, e, g, a) => SlugsUnique'
    BY DEF CreateChannel, Available, TypeOK, SlugsUnique, evVars
  <2>4. \A c \in Channel, e \in Event, g \in Slug, a \in BOOLEAN :
           UpdateChannel(c, e, g, a) => SlugsUnique'
    BY DEF UpdateChannel, Available, TypeOK, SlugsUnique, evVars
  <2>5. \A n \in Donation, c \in Channel \cup {None}, e \in Event \cup {None} :
           Donate(n, c, e) => SlugsUnique'
    BY DEF Donate, Record, SlugsUnique, evVars, chVars
  <2>6. \A n \in Donation, c \in Channel : Assign(n, c) => SlugsUnique'
    BY DEF Assign, Record, SlugsUnique, evVars, chVars
  <2>7. UNCHANGED vars => SlugsUnique'
    BY DEF vars, SlugsUnique
  <2> QED
    BY <2>1, <2>2, <2>3, <2>4, <2>5, <2>6, <2>7, NextCases
<1> QED
  BY <1>1, <1>2, TypeCorrect, PTL DEF Spec

\* No step renames an Event or a Channel that is active, even one that deactivates
\* it at the same time (updateEvent, updateChannel).
THEOREM SlugsFixed == Spec => SlugFixedWhileActive
<1> DEFINE Fixed == /\ \A e \in events : evActive[e] => evSlug'[e] = evSlug[e]
                    /\ \A c \in channels : chActive[c] => chSlug'[c] = chSlug[c]
<1>1. TypeOK /\ [Next]_vars => [Fixed]_vars
  <2> SUFFICES ASSUME TypeOK, [Next]_vars PROVE Fixed
    OBVIOUS
  <2>1. \A e \in Event, g \in Slug : CreateEvent(e, g) => Fixed
    BY DEF CreateEvent, TypeOK, chVars
  <2>2. \A e \in Event, g \in Slug, p \in Channel \cup {None}, a \in BOOLEAN :
           UpdateEvent(e, g, p, a) => Fixed
    BY DEF UpdateEvent, MayRename, TypeOK, chVars
  <2>3. \A c \in Channel, e \in Event, g \in Slug, a \in BOOLEAN :
           CreateChannel(c, e, g, a) => Fixed
    BY DEF CreateChannel, TypeOK, evVars
  <2>4. \A c \in Channel, e \in Event, g \in Slug, a \in BOOLEAN :
           UpdateChannel(c, e, g, a) => Fixed
    BY DEF UpdateChannel, MayRename, TypeOK, evVars
  <2>5. \A n \in Donation, c \in Channel \cup {None}, e \in Event \cup {None} :
           Donate(n, c, e) => Fixed
    BY DEF Donate, Record, evVars, chVars
  <2>6. \A n \in Donation, c \in Channel : Assign(n, c) => Fixed
    BY DEF Assign, Record, evVars, chVars
  <2>7. UNCHANGED vars => Fixed
    BY DEF vars
  <2> HIDE DEF Fixed
  <2> QED
    BY <2>1, <2>2, <2>3, <2>4, <2>5, <2>6, <2>7, NextCases
<1> QED
  BY <1>1, TypeCorrect, PTL DEF Spec, SlugFixedWhileActive

-----------------------------------------------------------------------------
\* What routing returns: nothing, or a Channel and an Event that go together when
\* the Event is active.
LEMMA RouteSound ==
    ASSUME TypeOK, ActiveEventRoutable,
           NEW c \in channels \cup {None}, NEW e \in events \cup {None}
    PROVE  LET r == RouteOf(c, e) IN
           \/ r = Unassigned
           \/ /\ r.channel # None
              /\ r.event \in ActiveEvents => chEvent[r.channel] = r.event
<1> USE NoneAssumption
<1> DEFINE only == CHOOSE f \in DefaultEvents : TRUE
<1>1. \A x, y : Route(x, y).channel = x /\ Route(x, y).event = y
  BY DEF Route
<1>2. \A f \in ActiveEvents : evPrimary[f] # None /\ chEvent[evPrimary[f]] = f
  BY DEF TypeOK, ActiveEvents, ActiveEventRoutable
<1>3. CASE c # None
  BY <1>1, <1>3 DEF RouteOf
<1>4. CASE c = None /\ e # None
  BY <1>1, <1>2, <1>4 DEF RouteOf
<1>5. CASE c = None /\ e = None
  <2>1. CASE \E f \in DefaultEvents : DefaultEvents = {f}
    <3>1. only \in ActiveEvents
      BY <2>1 DEF DefaultEvents
    <3>2. RouteOf(c, e) = Route(evPrimary[only], only)
      BY <1>5, <2>1 DEF RouteOf
    <3> QED
      BY <1>1, <1>2, <3>1, <3>2
  <2>2. CASE ~\E f \in DefaultEvents : DefaultEvents = {f}
    BY <1>5, <2>2 DEF RouteOf
  <2> QED
    BY <2>1, <2>2
<1> QED
  BY <1>3, <1>4, <1>5

\* A route is recorded, and announced, for one donation that had none.
LEMMA RecordSound ==
    ASSUME TypeOK, ActiveEventRoutable, DonationInv, NEW n \in Donation,
           dChannel[n] = None, dEvent[n] = None, donations' = donations \cup {n},
           NEW c \in channels \cup {None}, NEW e \in events \cup {None},
           Record(n, RouteOf(c, e))
    PROVE  /\ DonationInv'
           /\ \A m \in Donation :
                 \/ dChannel'[m] = dChannel[m] /\ dEvent'[m] = dEvent[m]
                 \/ /\ dChannel[m] = None /\ dEvent[m] = None
                    /\ dChannel'[m] # None
                    /\ dEvent'[m] \in ActiveEvents => chEvent[dChannel'[m]] = dEvent'[m]
<1> DEFINE r == RouteOf(c, e)
<1>1. \/ r = Unassigned
      \/ /\ r.channel # None
         /\ r.event \in ActiveEvents => chEvent[r.channel] = r.event
  BY RouteSound
<1>2. Unassigned.channel = None /\ Unassigned.event = None
  BY DEF Unassigned, Route
<1> HIDE DEF r
<1>3. \A m \in Donation :
         /\ dChannel'[m] = IF m = n THEN r.channel ELSE dChannel[m]
         /\ dEvent'[m] = IF m = n THEN r.event ELSE dEvent[m]
  BY DEF Record, TypeOK, r
<1>4. \A m \in Donation :
         announced'[m] = IF m = n /\ r # Unassigned THEN announced[m] + 1 ELSE announced[m]
  BY DEF Record, TypeOK, r
<1>5. DonationInv'
  BY <1>1, <1>2, <1>3, <1>4 DEF DonationInv, AnnouncedOnce
<1> QED
  BY <1>1, <1>2, <1>3, <1>5

\* The donation steps, and the others, which leave donations alone.
LEMMA DonationStep ==
    ASSUME TypeOK, ActiveEventRoutable, DonationInv, [Next]_vars
    PROVE  /\ DonationInv'
           /\ \A m \in Donation :
                 \/ dChannel'[m] = dChannel[m] /\ dEvent'[m] = dEvent[m]
                 \/ /\ dChannel[m] = None /\ dEvent[m] = None
                    /\ dChannel'[m] # None
                    /\ dEvent'[m] \in ActiveEvents => chEvent[dChannel'[m]] = dEvent'[m]
<1> DEFINE Sound(m) ==
       \/ dChannel'[m] = dChannel[m] /\ dEvent'[m] = dEvent[m]
       \/ /\ dChannel[m] = None /\ dEvent[m] = None
          /\ dChannel'[m] # None
          /\ dEvent'[m] \in ActiveEvents => chEvent[dChannel'[m]] = dEvent'[m]
       Goal == DonationInv' /\ \A m \in Donation : Sound(m)
<1>1. UNCHANGED dVars => Goal
  BY DEF dVars, DonationInv, AnnouncedOnce
<1>2. \A n \in Donation, c \in Channel \cup {None}, e \in Event \cup {None} :
         Donate(n, c, e) => Goal
  BY RecordSound DEF Donate, DonationInv
<1>3. \A n \in Donation, c \in Channel : Assign(n, c) => Goal
  <2> SUFFICES ASSUME NEW n \in Donation, NEW c \in Channel, Assign(n, c) PROVE Goal
    OBVIOUS
  <2>1. donations' = donations \cup {n} /\ dChannel[n] = None /\ dEvent[n] = None
    BY DEF Assign, Assignable
  <2> QED
    BY <2>1, RecordSound DEF Assign
<1> HIDE DEF Goal
<1>4. Goal
  BY <1>1, <1>2, <1>3, NextCases
     DEF CreateEvent, UpdateEvent, CreateChannel, UpdateChannel, vars, dVars
<1> QED
  BY <1>4 DEF Goal

\* A donation is announced exactly when it is routed (processDonation,
\* assignDonationChannel).
THEOREM AnnouncedCorrect == Spec => []AnnouncedOnce
<1>1. Init => DonationInv
  BY DEF Init, DonationInv, AnnouncedOnce
<1>2. DonationInv => AnnouncedOnce
  BY DEF DonationInv
<1> QED
  BY <1>1, <1>2, DonationStep, TypeCorrect, RoutableCorrect, PTL DEF Spec

\* A donation is routed once, to a Channel, which is one of its Event's when that
\* Event is active (resolveDonationRoute).
THEOREM RoutedCorrect == Spec => RoutedSoundly
<1> DEFINE Sound ==
       \A n \in Donation :
          \/ dChannel'[n] = dChannel[n] /\ dEvent'[n] = dEvent[n]
          \/ /\ dChannel[n] = None /\ dEvent[n] = None
             /\ dChannel'[n] # None
             /\ dEvent'[n] \in ActiveEvents => chEvent[dChannel'[n]] = dEvent'[n]
<1>1. Init => DonationInv
  BY DEF Init, DonationInv, AnnouncedOnce
<1>2. TypeOK /\ ActiveEventRoutable /\ DonationInv /\ [Next]_vars => DonationInv'
  BY DonationStep
<1>3. TypeOK /\ ActiveEventRoutable /\ DonationInv /\ [Next]_vars => [Sound]_vars
  BY DonationStep
<1> QED
  BY <1>1, <1>2, <1>3, TypeCorrect, RoutableCorrect, PTL DEF Spec, RoutedSoundly

-----------------------------------------------------------------------------
(* The cart.                                                               *)


-----------------------------------------------------------------------------
(* Lists: what Only keeps of a sequence.                                   *)

\* A property of 0 that passes from each number to the next holds up to n.
LEMMA CountUp ==
    ASSUME NEW n \in Nat, NEW G, 0 \in G, \A m \in 0..(n - 1) : m \in G => m + 1 \in G
    PROVE  \A m \in 0..n : m \in G
<1> SUFFICES ASSUME \E m \in 0..n : m \notin G PROVE FALSE
  OBVIOUS
<1> DEFINE Bad == {m \in 0..n : m \notin G}
<1>1. PICK m \in Bad : \A k \in Bad : m <= k
  <2>1. Bad \subseteq Nat /\ Bad # {}
    OBVIOUS
  <2> HIDE DEF Bad
  <2> QED
    BY <2>1, LeastNat
<1>2. m # 0 /\ m - 1 \in 0..(n - 1) /\ m - 1 \notin Bad
  BY <1>1
<1>3. m - 1 \in G
  BY <1>2
<1>4. (m - 1) + 1 = m
  BY <1>1
<1> QED
  BY <1>1, <1>2, <1>3, <1>4

\* f[n] is what Only keeps of the first n items of seq.
Firsts(f, seq, keep, len) ==
    f = [n \in 0..len |->
            IF n = 0 THEN << >>
            ELSE IF seq[n] \in keep THEN Append(f[n - 1], seq[n]) ELSE f[n - 1]]

LEMMA OnlyUnfolds ==
    ASSUME NEW seq, NEW keep
    PROVE  Only(seq, keep) = (CHOOSE f : Firsts(f, seq, keep, Len(seq)))[Len(seq)]
  BY Zenon DEF Only, Firsts

LEMMA FirstsStart ==
    ASSUME NEW seq, NEW keep, NEW len \in Nat, NEW f, Firsts(f, seq, keep, len)
    PROVE  f[0] = << >>
<1> DEFINE F == [k \in 0..len |->
            IF k = 0 THEN << >>
            ELSE IF seq[k] \in keep THEN Append(f[k - 1], seq[k]) ELSE f[k - 1]]
<1>1. f = F
  BY DEF Firsts
<1>2. F[0] = << >>
  <2>1. 0 \in 0..len
    OBVIOUS
  <2> QED
    BY <2>1
<1> HIDE DEF F
<1> QED
  BY <1>1, <1>2

LEMMA FirstsStep ==
    ASSUME NEW seq, NEW keep, NEW len \in Nat, NEW f, Firsts(f, seq, keep, len),
           NEW n \in 1..len
    PROVE  f[n] = IF seq[n] \in keep THEN Append(f[n - 1], seq[n]) ELSE f[n - 1]
<1> DEFINE F == [k \in 0..len |->
            IF k = 0 THEN << >>
            ELSE IF seq[k] \in keep THEN Append(f[k - 1], seq[k]) ELSE f[k - 1]]
<1>1. f = F
  BY DEF Firsts
<1>2. n \in 0..len /\ n # 0
  OBVIOUS
<1>3. F[n] = IF seq[n] \in keep THEN Append(f[n - 1], seq[n]) ELSE f[n - 1]
  BY <1>2
<1> HIDE DEF F
<1>4. f[n] = F[n]
  BY <1>1
<1> QED
  BY <1>3, <1>4

LEMMA FirstsExist ==
    ASSUME NEW seq, NEW keep, NEW len \in Nat
    PROVE  \E f : Firsts(f, seq, keep, len)
<1> DEFINE G == {m \in Nat : \E f : Firsts(f, seq, keep, m)}
<1>1. 0 \in G
  <2> DEFINE f == [n \in 0..0 |-> << >>]
  <2>1. Firsts(f, seq, keep, 0)
    BY DEF Firsts
  <2> QED
    BY <2>1
<1>2. ASSUME NEW m \in 0..(len - 1), m \in G PROVE m + 1 \in G
  <2>1. PICK g : Firsts(g, seq, keep, m)
    BY <1>2
  <2> DEFINE f == [n \in 0..(m + 1) |->
                      IF n = 0 THEN << >>
                      ELSE IF seq[n] \in keep THEN Append(g[n - 1], seq[n]) ELSE g[n - 1]]
  <2>2. ASSUME NEW n \in 0..m PROVE f[n] = g[n]
    <3>1. m \in Nat /\ n \in 0..(m + 1)
      BY <1>2
    <3>2. CASE n = 0
      <4>1. g[0] = << >>
        BY <2>1, <3>1, FirstsStart
      <4> QED
        BY <3>1, <3>2, <4>1
    <3>3. CASE n # 0
      <4>1. n \in 1..m
        BY <3>1, <3>3
      <4>2. g[n] = IF seq[n] \in keep THEN Append(g[n - 1], seq[n]) ELSE g[n - 1]
        BY <2>1, <3>1, <4>1, FirstsStep
      <4> QED
        BY <3>1, <3>3, <4>2
    <3> QED
      BY <3>2, <3>3
  <2>3. \A n \in 0..(m + 1) : n # 0 => f[n - 1] = g[n - 1]
    <3> HIDE DEF f
    <3>1. \A n \in 0..(m + 1) : n # 0 => n - 1 \in 0..m
      BY <1>2
    <3> QED
      BY <2>2, <3>1
  <2>4. Firsts(f, seq, keep, m + 1)
    BY <2>3 DEF Firsts
  <2> QED
    BY <2>4
<1> HIDE DEF G
<1>3. len \in G
  BY <1>1, <1>2, CountUp
<1> QED
  BY <1>3 DEF G

\* What Only returns: a sequence of those items, of which none comes twice when none
\* did before.
LEMMA OnlyIs ==
    ASSUME NEW seq \in Seq(Item), NEW keep
    PROVE  /\ Only(seq, keep) \in Seq(Item)
           /\ Range(Only(seq, keep)) = Range(seq) \cap keep
           /\ IsInjective(seq) => IsInjective(Only(seq, keep))
<1> DEFINE len == Len(seq)
           f == CHOOSE g : Firsts(g, seq, keep, len)
<1>1. len \in Nat
  BY LenProperties
<1>2. Firsts(f, seq, keep, len)
  BY <1>1, FirstsExist
<1>3. Only(seq, keep) = f[len]
  BY OnlyUnfolds
<1> HIDE DEF f
<1> DEFINE Kept(n) == {seq[k] : k \in {j \in 1..n : seq[j] \in keep}}
           G == {n \in 0..len :
                    /\ f[n] \in Seq(Item)
                    /\ Range(f[n]) = Kept(n)
                    /\ IsInjective(seq) => IsInjective(f[n])}
<1>4. 0 \in G
  <2>1. f[0] = << >> /\ Kept(0) = {}
    <3>1. f[0] = << >>
      BY <1>1, <1>2, FirstsStart
    <3> QED
      BY <3>1
  <2>2. << >> \in Seq(Item) /\ Range(<< >>) = {} /\ IsInjective(<< >>)
    BY DEF Range, IsInjective
  <2> HIDE DEF Kept
  <2>3. Range(f[0]) = Kept(0) /\ f[0] \in Seq(Item) /\ IsInjective(f[0])
    BY <2>1, <2>2
  <2> QED
    BY <1>1, <2>3
<1>5. ASSUME NEW n \in 0..(len - 1), n \in G PROVE n + 1 \in G
  <2> DEFINE m == n + 1
  <2>1. m \in 1..len /\ seq[m] \in Item
    BY <1>1
  <2>2. f[m] = IF seq[m] \in keep THEN Append(f[n], seq[m]) ELSE f[n]
    <3>1. m - 1 = n
      BY <1>1
    <3>2. f[m] = IF seq[m] \in keep THEN Append(f[m - 1], seq[m]) ELSE f[m - 1]
      <4> HIDE DEF m
      <4> QED
        BY <1>1, <1>2, <2>1, FirstsStep
    <3> HIDE DEF m
    <3> QED
      BY <3>1, <3>2
  <2>3. 1..m = 1..n \cup {m}
    OBVIOUS
  <2>4. CASE seq[m] \notin keep
    <3>1. Kept(m) = Kept(n)
      BY <2>3, <2>4
    <3> QED
      BY <1>1, <1>5, <2>2, <2>4, <3>1
  <2>5. CASE seq[m] \in keep
    <3> DEFINE s == f[n]
               t == Append(s, seq[m])
    <3>1. s \in Seq(Item) /\ Range(s) = Kept(n) /\ (IsInjective(seq) => IsInjective(s))
      BY <1>5
    <3>2. f[m] = t
      BY <2>2, <2>5
    <3>3. Kept(m) = Kept(n) \cup {seq[m]}
      BY <2>3, <2>5
    <3>4. /\ Len(s) \in Nat /\ DOMAIN s = 1..Len(s)
          /\ t \in Seq(Item) /\ DOMAIN t = 1..(Len(s) + 1)
          /\ \A k \in 1..Len(s) : t[k] = s[k]
          /\ t[Len(s) + 1] = seq[m]
      BY <2>1, <3>1, LenProperties, AppendProperties
    <3>5. Range(t) = Range(s) \cup {seq[m]}
      <4> HIDE DEF s, t
      <4> QED
        BY <3>4 DEF Range
    <3>6. ASSUME IsInjective(seq) PROVE IsInjective(t)
      <4>1. seq[m] \notin Kept(n)
        BY <1>1, <2>1, <3>6 DEF IsInjective
      <4>2. \A k \in 1..Len(s) : s[k] # seq[m]
        <5>1. \A k \in DOMAIN s : s[k] \in Range(s)
          BY DEF Range
        <5> QED
          BY <3>1, <3>4, <4>1, <5>1
      <4>3. IsInjective(s)
        BY <3>1, <3>6
      <4> HIDE DEF s, t
      <4> QED
        BY <3>4, <4>2, <4>3 DEF IsInjective
    <3> HIDE DEF s, t, Kept
    <3>7. Range(f[m]) = Kept(m) /\ f[m] \in Seq(Item)
      BY <3>1, <3>2, <3>3, <3>4, <3>5
    <3>8. IsInjective(seq) => IsInjective(f[m])
      BY <3>2, <3>6
    <3> QED
      BY <1>1, <3>7, <3>8
  <2> QED
    BY <2>4, <2>5
<1>6. len \in G
  <2> HIDE DEF G
  <2>1. \A n \in 0..len : n \in G
    BY <1>1, <1>4, <1>5, CountUp
  <2> QED
    BY <1>1, <2>1
<1>7. Kept(len) = Range(seq) \cap keep
  BY LenProperties DEF Range
<1> QED
  BY <1>3, <1>6, <1>7

LEMMA SetSeqs ==
    ASSUME NEW S \in SUBSET Item, NEW s \in SetToSeqs(S)
    PROVE  s \in Seq(Item) /\ Range(s) \subseteq S /\ IsInjective(s)
<1>1. IsFiniteSet(S)
  BY FS_Subset, ConstantsAssumption
<1> DEFINE n == Cardinality(S)
<1>2. n \in Nat
  BY <1>1, FS_CardinalityType
<1>3. s \in [1..n -> S] /\ \A i, j \in 1..n : i # j => s[i] # s[j]
  BY DEF SetToSeqs
<1> HIDE DEF n
<1>4. s \in Seq(Item)
  BY <1>2, <1>3, SeqDef
<1>5. Range(s) \subseteq S
  BY <1>3 DEF Range
<1>6. IsInjective(s)
  BY <1>3 DEF IsInjective
<1> QED
  BY <1>4, <1>5, <1>6

\* Only looks at a set through the items of the sequence.
LEMMA OnlySame ==
    ASSUME NEW seq \in Seq(Item), NEW keep, NEW held,
           \A i \in Range(seq) : i \in keep <=> i \in held
    PROVE  Only(seq, keep) = Only(seq, held)
<1> DEFINE len == Len(seq)
           f == CHOOSE h : Firsts(h, seq, keep, len)
           g == CHOOSE h : Firsts(h, seq, held, len)
<1>1. len \in Nat
  BY LenProperties
<1>2. Firsts(f, seq, keep, len) /\ Firsts(g, seq, held, len)
  BY <1>1, FirstsExist
<1>3. Only(seq, keep) = f[len] /\ Only(seq, held) = g[len]
  BY OnlyUnfolds
<1> HIDE DEF f, g
<1> DEFINE G == {n \in 0..len : f[n] = g[n]}
<1>4. 0 \in G
  <2>1. f[0] = << >> /\ g[0] = << >>
    BY <1>1, <1>2, FirstsStart
  <2> QED
    BY <1>1, <2>1
<1>5. ASSUME NEW n \in 0..(len - 1), n \in G PROVE n + 1 \in G
  <2> DEFINE m == n + 1
  <2>1. m \in 1..len /\ m - 1 = n
    BY <1>1
  <2>2. seq[m] \in Range(seq)
    BY <2>1, LenProperties DEF Range
  <2> HIDE DEF m
  <2>3. f[m] = IF seq[m] \in keep THEN Append(f[m - 1], seq[m]) ELSE f[m - 1]
    BY <1>1, <1>2, <2>1, FirstsStep
  <2>4. g[m] = IF seq[m] \in held THEN Append(g[m - 1], seq[m]) ELSE g[m - 1]
    BY <1>1, <1>2, <2>1, FirstsStep
  <2>5. f[n] = g[n]
    BY <1>5
  <2>6. f[m] = g[m]
    BY <2>1, <2>2, <2>3, <2>4, <2>5
  <2> QED
    BY <1>1, <2>1, <2>6 DEF m
<1>6. len \in G
  <2> HIDE DEF G
  <2>1. \A n \in 0..len : n \in G
    BY <1>1, <1>4, <1>5, CountUp
  <2> QED
    BY <1>1, <2>1
<1> QED
  BY <1>3, <1>6

\* What Merge makes of the lists: what stays keeps its place, what is new comes last.
LEMMA MergeIs ==
    ASSUME NEW old \in Seq(Item), IsInjective(old),
           NEW fresh, fresh.listed \subseteq Item, NEW new \in Merge(old, fresh)
    PROVE  /\ new \in Seq(Item) /\ IsInjective(new)
           /\ Range(new) \cap Range(old)
                = Range(old) \cap (fresh.listed \cup InCart)
           /\ IsPrefix(Only(old, Range(new)), new)
<1> DEFINE keep == fresh.listed \cup InCart
           kept == Only(old, keep)
<1>1. PICK tail \in SetToSeqs(fresh.listed \ Range(old)) : new = kept \o tail
  BY DEF Merge, Protected
<1>2. /\ kept \in Seq(Item) /\ Range(kept) = Range(old) \cap keep
      /\ IsInjective(kept)
  BY OnlyIs
<1>3. /\ tail \in Seq(Item) /\ Range(tail) \subseteq fresh.listed \ Range(old)
      /\ IsInjective(tail)
  <2>1. fresh.listed \ Range(old) \in SUBSET Item
    OBVIOUS
  <2> QED
    BY <2>1, SetSeqs
<1> HIDE DEF kept, keep
<1>4. /\ Len(kept) \in Nat /\ DOMAIN kept = 1..Len(kept)
      /\ Len(tail) \in Nat /\ DOMAIN tail = 1..Len(tail)
  BY <1>2, <1>3, LenProperties
<1>5. /\ new \in Seq(Item) /\ Len(new) = Len(kept) + Len(tail)
      /\ \A k \in 1..Len(kept) : new[k] = kept[k]
      /\ \A k \in 1..Len(tail) : new[Len(kept) + k] = tail[k]
  BY <1>1, <1>2, <1>3, <1>4, ConcatProperties
<1>6. DOMAIN new = 1..(Len(kept) + Len(tail))
  BY <1>5, LenProperties
<1>7. \A k \in DOMAIN new :
         \/ k \in 1..Len(kept) /\ new[k] = kept[k]
         \/ k - Len(kept) \in 1..Len(tail) /\ new[k] = tail[k - Len(kept)]
  <2> SUFFICES ASSUME NEW k \in DOMAIN new, k \notin 1..Len(kept)
               PROVE  k - Len(kept) \in 1..Len(tail) /\ new[k] = tail[k - Len(kept)]
    BY <1>5
  <2>1. k - Len(kept) \in 1..Len(tail)
    BY <1>4, <1>6
  <2>2. new[Len(kept) + (k - Len(kept))] = tail[k - Len(kept)]
    BY <1>5, <2>1
  <2>3. Len(kept) + (k - Len(kept)) = k
    BY <1>4, <1>6
  <2> QED
    BY <2>1, <2>2, <2>3
<1>8. Range(new) = Range(kept) \cup Range(tail)
  <2>1. \A k \in 1..Len(kept) : k \in DOMAIN new
    BY <1>4, <1>6
  <2>2. \A k \in 1..Len(tail) : Len(kept) + k \in DOMAIN new
    BY <1>4, <1>6
  <2>3. \A k \in DOMAIN kept : kept[k] \in Range(new)
    BY <1>4, <1>5, <2>1 DEF Range
  <2>4. \A k \in DOMAIN tail : tail[k] \in Range(new)
    BY <1>4, <1>5, <2>2 DEF Range
  <2>5. \A k \in DOMAIN new : new[k] \in Range(kept) \cup Range(tail)
    BY <1>4, <1>7 DEF Range
  <2> QED
    BY <2>3, <2>4, <2>5 DEF Range
<1>9. IsInjective(new)
  <2> SUFFICES ASSUME NEW a \in DOMAIN new, NEW b \in DOMAIN new, new[a] = new[b]
               PROVE  a = b
    BY DEF IsInjective
  <2>1. /\ \A k \in 1..Len(kept) : kept[k] \in Range(old)
        /\ \A k \in 1..Len(tail) : tail[k] \notin Range(old)
    BY <1>2, <1>3, <1>4 DEF Range
  <2>2. \/ a \in 1..Len(kept) /\ b \in 1..Len(kept) /\ kept[a] = kept[b]
        \/ /\ a - Len(kept) \in 1..Len(tail) /\ b - Len(kept) \in 1..Len(tail)
           /\ tail[a - Len(kept)] = tail[b - Len(kept)]
    BY <1>7, <2>1
  <2>3. a \in Int /\ b \in Int
    BY <1>4, <1>6
  <2>4. CASE a \in 1..Len(kept) /\ b \in 1..Len(kept) /\ kept[a] = kept[b]
    BY <1>2, <1>4, <2>4 DEF IsInjective
  <2>5. CASE /\ a - Len(kept) \in 1..Len(tail) /\ b - Len(kept) \in 1..Len(tail)
             /\ tail[a - Len(kept)] = tail[b - Len(kept)]
    <3>1. a - Len(kept) = b - Len(kept)
      BY <1>3, <1>4, <2>5 DEF IsInjective
    <3> QED
      BY <1>4, <2>3, <3>1
  <2> QED
    BY <2>2, <2>4, <2>5
<1>10. Range(new) \cap Range(old) = Range(old) \cap keep
  BY <1>2, <1>3, <1>8
<1>11. Only(old, Range(new)) = kept
  <2>1. \A i \in Range(old) : i \in Range(new) <=> i \in keep
    BY <1>10
  <2> QED
    BY <2>1, OnlySame DEF kept
<1>12. IsPrefix(kept, new)
  <2>1. Len(kept) <= Len(new)
    BY <1>4, <1>5
  <2> QED
    BY <1>4, <1>5, <2>1 DEF IsPrefix
<1> QED
  BY <1>5, <1>9, <1>10, <1>11, <1>12 DEF keep

-----------------------------------------------------------------------------
(* The cart: types.                                                        *)

LEMMA CartCases ==
    ASSUME NEW P, [CartNext]_cartVars,
           \A i \in Item :
              (\/ Change(i) \/ Add(i) \/ Increment(i) \/ Decrement(i)
               \/ RemoveItem(i) \/ Edit(i) \/ Pause(i) \/ Blur(i) \/ Follow(i)
               \/ RemoveIssue(i)) => P,
           Ask => P,
           \A fresh \in asked : Refresh(fresh) \/ LoadFails(fresh) => P,
           \A c \in Channels : SelectChannel(c) => P,
           ConfirmSwitch \/ CancelSwitch \/ OpenDrawer \/ CloseDrawer \/ Reload => P,
           \A r \in Run :
              (\/ ClickCheckout(r) \/ SkipNudge(r) \/ Revalidated(r)
               \/ RevalidationFails(r) \/ Serve(r) \/ Cleared(r)
               \/ CheckoutFails(r)) => P,
           UNCHANGED cartVars => P
    PROVE  P
  BY DEF CartNext, Checkout

LEMMA AnswerTypes ==
    ASSUME CartTypeOK
    PROVE  Now \in Answer
  BY DEF CartTypeOK, Now, Answer

LEMMA ContentsTypes ==
    ASSUME CartTypeOK
    PROVE  /\ Empty \in Contents /\ \A i \in Item : Empty[i] = 0
           /\ \A i \in Item : cart[i] \in 0..Stock
           /\ Ended \in [stage : {"none"}, cart : {Empty}, channel : {NoChannel},
                           ack : {FALSE}, fresh : Answer]
<1>1. Stock \in Nat \ {0} /\ 0 \in 0..Stock
  BY ConstantsAssumption
<1>2. Empty \in Contents /\ \A i \in Item : Empty[i] = 0
  BY <1>1 DEF Empty, Contents
<1>3. Empty \in [Item -> 0..Stock]
  BY <1>2 DEF Contents
<1>4. [listed |-> {}, left |-> Empty] \in Answer
  BY <1>3 DEF Answer
<1>5. \A i \in Item : cart[i] \in 0..Stock
  BY DEF CartTypeOK, Contents
<1> QED
  BY <1>2, <1>4, <1>5 DEF Ended

LEMMA UpdateTypes ==
    ASSUME CartTypeOK, NEW fresh \in Answer
    PROVE  Update(fresh) \in [Item -> 0..Stock]
<1>1. Stock \in Nat \ {0} /\ 0 \in 0..Stock
  BY ConstantsAssumption
<1> QED
  BY <1>1 DEF Update, CartTypeOK, Answer

\* Actions that only move numbers and sets of items.
LEMMA CartTypesItem ==
    ASSUME CartTypeOK, NEW i \in Item,
           \/ Add(i) \/ Increment(i) \/ Decrement(i) \/ RemoveItem(i)
           \/ Edit(i) \/ Pause(i) \/ Blur(i) \/ RemoveIssue(i)
    PROVE  CartTypeOK'
<1> USE DEF server, lists, choice, editing, review, history
<1>1. /\ cart \in [Item -> 0..Stock] /\ known \in [Item -> 0..Stock] /\ Stock \in Nat \ {0}
      /\ \A j \in Item \ Reward : cart[j] <= 1
      /\ linked \subseteq Item /\ lost \subseteq Item /\ cleared \subseteq Item
      /\ timer \subseteq Item /\ focus \subseteq Item /\ issues \subseteq Item
  BY ConstantsAssumption DEF CartTypeOK, Contents
<1>2. /\ cart' \in [Item -> 0..Stock] /\ \A j \in Item \ Reward : cart'[j] <= 1
      /\ linked' \subseteq Item /\ lost' \subseteq Item /\ cleared' \subseteq Item
      /\ timer' \subseteq Item /\ focus' \subseteq Item /\ issues' \subseteq Item
      /\ phase' \in {phase, "idle"}
  <2>1. CASE Add(i)
    BY <1>1, <2>1 DEF Add, Put
  <2>2. CASE Increment(i)
    BY <1>1, <2>2 DEF Increment
  <2>3. CASE Decrement(i)
    BY <1>1, <2>3 DEF Decrement, Forget, InCart
  <2>4. CASE RemoveItem(i)
    BY <1>1, <2>4 DEF RemoveItem, TakeOut, Forget
  <2>5. CASE Edit(i)
    BY <1>1, <2>5 DEF Edit
  <2>6. CASE Pause(i)
    BY <1>1, <2>6 DEF Pause, Put
  <2>7. CASE Blur(i)
    BY <1>1, <2>7 DEF Blur, Put, BlurClears
  <2>8. CASE RemoveIssue(i)
    BY <1>1, <2>8 DEF RemoveIssue, TakeOut, Forget
  <2> QED
    BY <2>1, <2>2, <2>3, <2>4, <2>5, <2>6, <2>7, <2>8
<1>3. UNCHANGED <<listed, left, changes, loaded, asked, shown, known, stale, selected, pending,
                  followed, drawer, ack, run, submitting>>
  BY DEF Add, Increment, Decrement, RemoveItem, Edit, Pause, Blur, RemoveIssue
<1> QED
  BY <1>2, <1>3 DEF CartTypeOK, Contents

\* The server, the lists, the Channels and the drawer.
LEMMA CartTypesPage ==
    ASSUME CartTypeOK,
           \/ \E i \in Item : Change(i) \/ Follow(i)
           \/ Ask \/ \E fresh \in asked : Refresh(fresh) \/ LoadFails(fresh)
           \/ \E c \in Channels : SelectChannel(c)
           \/ ConfirmSwitch \/ CancelSwitch \/ OpenDrawer \/ CloseDrawer
    PROVE  CartTypeOK'
<1> USE DEF server, lists, choice, editing, review, history
<1>1. /\ listed \subseteq Item /\ left \in [Item -> 0..Stock] /\ changes \in 0..MaxChanges
      /\ asked \subseteq Answer /\ known \in [Item -> 0..Stock]
      /\ shown \in Seq(Item) /\ IsInjective(shown)
      /\ cart \in [Item -> 0..Stock] /\ \A j \in Item \ Reward : cart[j] <= 1
      /\ selected \in Place /\ pending \in Place /\ lost \subseteq Item
      /\ linked \subseteq Item
  BY DEF CartTypeOK, Contents
<1>2. Stock \in Nat \ {0} /\ MaxChanges \in Nat /\ Home \in [Item -> Place] /\ Link \subseteq Item
  BY ConstantsAssumption DEF Place
<1>3. ASSUME NEW i \in Item, Change(i) PROVE CartTypeOK'
  <2>1. /\ listed' \subseteq Item /\ left' \in [Item -> 0..Stock]
        /\ changes' \in 0..MaxChanges
    <3>1. \/ Listing(IF i \in listed THEN listed \ {i} ELSE listed \cup {i}, left)
          \/ left[i] > 0 /\ Listing(listed, [left EXCEPT ![i] = @ - 1])
      BY <1>3 DEF Change
    <3>2. left[i] > 0 => [left EXCEPT ![i] = @ - 1] \in [Item -> 0..Stock]
      BY <1>1, <1>2
    <3>3. changes' = changes + 1 /\ changes < MaxChanges
      BY <3>1 DEF Listing
    <3>4. changes' \in 0..MaxChanges
      BY <1>1, <1>2, <3>3
    <3>5. CASE Listing(IF i \in listed THEN listed \ {i} ELSE listed \cup {i}, left)
      BY <1>1, <3>4, <3>5 DEF Listing
    <3>6. CASE left[i] > 0 /\ Listing(listed, [left EXCEPT ![i] = @ - 1])
      BY <1>1, <3>2, <3>4, <3>6 DEF Listing
    <3> QED
      BY <3>1, <3>5, <3>6
  <2>2. UNCHANGED <<lists, asked, cart, choice, followed, editing, review, run,
                    submitting, history>>
    BY <1>3 DEF Change, Listing
  <2> QED
    BY <2>1, <2>2 DEF CartTypeOK
<1>4. ASSUME NEW i \in Item, Follow(i) PROVE CartTypeOK'
  <2>1. /\ cart' \in [Item -> 0..Stock] /\ \A j \in Item \ Reward : cart'[j] <= 1
    BY <1>1, <1>2, <1>4 DEF Follow, Put
  <2>2. Home[i] # NoChannel => Home[i] \in Channels
    BY <1>2 DEF Place
  <2>3. selected' \in Place /\ pending' \in Place
    BY <1>1, <1>4, <2>2 DEF Follow, Choose, Place
  <2>4. /\ drawer' = TRUE /\ phase' \in {phase, "idle"} /\ ack' \in {ack, FALSE}
        /\ issues' \in {issues, {}} /\ followed' = followed \cup {i} /\ linked' = linked \cup {i}
    BY <1>4 DEF Follow, OpensDrawer
  <2>5. UNCHANGED <<server, lists, asked, editing, run, submitting, cleared, lost>>
    BY <1>4 DEF Follow
  <2> QED
    BY <2>1, <2>3, <2>4, <2>5 DEF CartTypeOK, Contents
<1>5. CASE Ask
  BY <1>5, AnswerTypes DEF Ask, CartTypeOK
<1>6. ASSUME NEW fresh \in asked, Refresh(fresh) PROVE CartTypeOK'
  <2>1. fresh \in Answer /\ fresh.listed \in SUBSET Item
    BY <1>1 DEF Answer
  <2>2. shown' \in Seq(Item) /\ IsInjective(shown')
    <3>1. CASE loaded
      <4>1. shown' \in Merge(shown, fresh)
        BY <1>6, <3>1 DEF Refresh
      <4> QED
        BY <1>1, <2>1, <4>1, MergeIs
    <3>2. CASE ~loaded
      <4>1. shown' \in SetToSeqs(fresh.listed)
        BY <1>6, <3>2 DEF Refresh
      <4> QED
        BY <2>1, <4>1, SetSeqs
    <3> QED
      BY <3>1, <3>2
  <2>3. known' \in [Item -> 0..Stock]
    BY <1>6, <2>1, UpdateTypes DEF Refresh
  <2>4. /\ stale' \subseteq Item /\ loaded' = TRUE /\ asked' \subseteq asked
        /\ lost' \subseteq Item
    BY <1>1, <1>6 DEF Refresh, Missing, InCart, CartTypeOK
  <2>5. UNCHANGED <<server, cart, choice, followed, editing, review, run,
                    submitting, cleared, linked>>
    BY <1>6 DEF Refresh
  <2> QED
    BY <1>1, <2>2, <2>3, <2>4, <2>5 DEF CartTypeOK
<1>7. ASSUME NEW fresh \in asked, LoadFails(fresh) PROVE CartTypeOK'
  <2>1. loaded' = TRUE /\ asked' \subseteq asked /\ lost' \subseteq Item
    BY <1>1, <1>7 DEF LoadFails, Missing, InCart
  <2>2. UNCHANGED <<server, shown, known, stale, cart, choice, followed, editing,
                    review, run, submitting, cleared, linked>>
    BY <1>7 DEF LoadFails
  <2> QED
    BY <1>1, <2>1, <2>2 DEF CartTypeOK
<1>8. ASSUME NEW c \in Channels, SelectChannel(c) PROVE CartTypeOK'
  <2>1. selected' \in Place /\ pending' \in Place
    BY <1>1, <1>8 DEF SelectChannel, Choose, Place
  <2>2. UNCHANGED <<server, lists, asked, cart, followed, editing, review, run,
                    submitting, history>>
    BY <1>8 DEF SelectChannel
  <2> QED
    BY <2>1, <2>2 DEF CartTypeOK
<1>9. CASE ConfirmSwitch
  <2>1. /\ cart' \in [Item -> 0..Stock] /\ \A j \in Item \ Reward : cart'[j] <= 1
        /\ linked' \subseteq Item /\ lost' \subseteq Item
        /\ selected' = pending /\ pending' = NoChannel
    BY <1>1, <1>2, <1>9 DEF ConfirmSwitch, Forget
  <2>2. UNCHANGED <<server, lists, asked, followed, editing, review, run, submitting,
                    cleared>>
    BY <1>9 DEF ConfirmSwitch
  <2> QED
    BY <1>1, <2>1, <2>2 DEF CartTypeOK, Contents, Place
<1>10. CASE CancelSwitch
  BY <1>10 DEF CancelSwitch, CartTypeOK, Place
<1>11. CASE OpenDrawer
  BY <1>11 DEF OpenDrawer, OpensDrawer, CartTypeOK
<1>12. CASE CloseDrawer
  BY <1>12 DEF CloseDrawer, CartTypeOK
<1> QED
  BY <1>3, <1>4, <1>5, <1>6, <1>7, <1>8, <1>9, <1>10, <1>11, <1>12

\* Checkouts, and the page that is loaded again.
LEMMA CartTypesCheckout ==
    ASSUME CartTypeOK,
           \/ Reload
           \/ \E r \in Run :
                 \/ ClickCheckout(r) \/ SkipNudge(r)
                 \/ Revalidated(r) \/ RevalidationFails(r)
                 \/ Serve(r) \/ Cleared(r) \/ CheckoutFails(r)
    PROVE  CartTypeOK'
<1> USE DEF server, lists, choice, editing, review, history
<1> DEFINE Stage == {"none", "checking", "posting", "accepted", "refused"}
           Row == [stage : Stage, cart : Contents, channel : Place, ack : BOOLEAN,
                   fresh : Answer]
<1>1. /\ asked \subseteq Answer /\ known \in [Item -> 0..Stock] /\ run \in [Run -> Row]
      /\ cart \in Contents /\ selected \in Place /\ ack \in BOOLEAN
      /\ lost \subseteq Item /\ linked \subseteq Item /\ timer \subseteq Item
      /\ cleared \subseteq Item
  BY DEF CartTypeOK
<1>2. /\ Empty \in Contents /\ \A i \in Item : Empty[i] = 0
      /\ Ended \in Row /\ NoChannel \in Place
  BY ContentsTypes DEF Place
<1>3. Empty \in [Item -> 0..Stock] /\ \A i \in Item \ Reward : Empty[i] <= 1
  BY <1>2 DEF Contents
<1>4. CASE Reload
  <2>1. << >> \in Seq(Item) /\ IsInjective(<< >>)
    BY DEF IsInjective
  <2>2. run' \in [Run -> Row]
    BY <1>2, <1>4 DEF Reload
  <2> HIDE DEF Row
  <2> QED
    BY <1>2, <1>3, <1>4, <2>1, <2>2 DEF Reload, CartTypeOK, Row
<1>5. ASSUME NEW r \in Run, ClickCheckout(r) \/ SkipNudge(r) PROVE CartTypeOK'
  <2>1. [stage |-> "checking", cart |-> cart, channel |-> selected, ack |-> ack,
         fresh |-> Now] \in Row
    BY <1>1, AnswerTypes
  <2>2. run' \in [Run -> Row] /\ phase' = "checking" /\ ack' \in BOOLEAN
    <3> HIDE DEF Row
    <3> QED
      BY <1>1, <1>5, <2>1 DEF ClickCheckout, SkipNudge, Starts
  <2>3. UNCHANGED <<server, lists, asked, cart, choice, followed, editing, drawer,
                    issues, submitting, history>>
    BY <1>5 DEF ClickCheckout, SkipNudge
  <2> QED
    BY <2>2, <2>3 DEF CartTypeOK
<1>6. ASSUME NEW r \in Run, Revalidated(r) PROVE CartTypeOK'
  <2>1. run[r] \in Row /\ run[r].fresh \in Answer /\ run[r].fresh.listed \in SUBSET Item
        /\ run[r].cart \in Contents
    BY <1>1 DEF Answer
  <2>2. shown' \in Seq(Item) /\ IsInjective(shown')
    BY <1>6, <2>1, SetSeqs DEF Revalidated
  <2>3. known' \in [Item -> 0..Stock]
    BY <1>6, <2>1, UpdateTypes DEF Revalidated
  <2>4. lost' \subseteq Item
    BY <1>1, <1>6 DEF Revalidated, Missing, InCart
  <2>5. [run[r] EXCEPT !.stage = "posting", !.cart = Sent(r), !.ack = FALSE] \in Row
    BY <2>1 DEF Sent
  <2>6. run' \in [Run -> Row]
    <3> HIDE DEF Row
    <3>1. \/ run' = [run EXCEPT ![r] = Ended]
          \/ run' = [run EXCEPT ![r] =
                       [run[r] EXCEPT !.stage = "posting", !.cart = Sent(r), !.ack = FALSE]]
      BY <1>1, <1>6 DEF Revalidated
    <3> QED
      BY <1>1, <1>2, <2>5, <3>1
  <2>7. issues' \subseteq Item /\ phase' \in {"issues", "nudge", "idle"} /\ submitting' \in BOOLEAN
    BY <1>6 DEF Revalidated, Unavailable, CartTypeOK
  <2>8. UNCHANGED <<server, asked, loaded, stale, cart, choice, followed, editing,
                    drawer, ack, cleared, linked>>
    BY <1>6 DEF Revalidated
  <2> QED
    BY <2>2, <2>3, <2>4, <2>6, <2>7, <2>8 DEF CartTypeOK
<1>7. ASSUME NEW r \in Run, RevalidationFails(r) \/ Serve(r) \/ CheckoutFails(r)
      PROVE CartTypeOK'
  <2>1. \A a \in {"accepted", "refused"} : [Ended EXCEPT !.stage = a] \in Row
    BY <1>2
  <2>2. run' \in [Run -> Row]
    <3> HIDE DEF Row
    <3> QED
      BY <1>1, <1>2, <1>7, <2>1 DEF RevalidationFails, Serve, CheckoutFails
  <2>3. submitting' \in {submitting, FALSE}
    BY <1>7 DEF RevalidationFails, Serve, CheckoutFails
  <2>4. UNCHANGED <<server, lists, asked, cart, choice, followed, editing, review,
                    history>>
    BY <1>7 DEF RevalidationFails, Serve, CheckoutFails
  <2> QED
    BY <2>2, <2>3, <2>4 DEF CartTypeOK
<1>8. ASSUME NEW r \in Run, Cleared(r) PROVE CartTypeOK'
  <2>1. run' \in [Run -> Row]
    <3> HIDE DEF Row
    <3> QED
      BY <1>1, <1>2, <1>8 DEF Cleared
  <2>2. /\ cart' = Empty /\ cleared' \subseteq Item /\ linked' \subseteq Item
        /\ lost' \subseteq Item /\ submitting' = FALSE
    BY <1>1, <1>8 DEF Cleared, Forget
  <2>3. UNCHANGED <<server, lists, asked, choice, followed, editing, review>>
    BY <1>8 DEF Cleared
  <2> QED
    BY <1>2, <1>3, <2>1, <2>2, <2>3 DEF CartTypeOK
<1> QED
  BY <1>4, <1>5, <1>6, <1>7, <1>8

LEMMA CartTypesNext ==
    ASSUME CartTypeOK, [CartNext]_cartVars
    PROVE  CartTypeOK'
<1>1. CASE UNCHANGED cartVars
  BY <1>1 DEF cartVars, server, lists, choice, editing, review, history, CartTypeOK
<1> QED
  BY <1>1, CartCases, CartTypesItem, CartTypesPage, CartTypesCheckout

-----------------------------------------------------------------------------
(* The cart: what holds of every state.                                    *)

\* The amount that is typed, and the edits that wait.
LEMMA FocusNext ==
    ASSUME CartTypeOK, FocusInv, EditsStayInCart, [CartNext]_cartVars
    PROVE  FocusInv' /\ EditsStayInCart'
<1> USE DEF server, lists, choice, editing, review, history
<1> USE DEF FocusInv, EditsStayInCart, InCart
<1>1. /\ cart \in [Item -> 0..Stock] /\ timer \subseteq Item /\ focus \subseteq Item
  BY DEF CartTypeOK, Contents
<1>2. ASSUME NEW i \in Item, Change(i) \/ Add(i) \/ Increment(i) \/ Decrement(i)
      PROVE  FocusInv' /\ EditsStayInCart'
  <2>1. CASE Change(i)
    BY <2>1 DEF Change, Listing
  <2>2. CASE Add(i) \/ Increment(i) \/ Decrement(i)
    BY <2>2 DEF Add, Increment, Decrement
  <2> QED
    BY <1>2, <2>1, <2>2
<1>3. ASSUME NEW i \in Item, RemoveItem(i) \/ RemoveIssue(i)
      PROVE  FocusInv' /\ EditsStayInCart'
  BY <1>3 DEF RemoveItem, RemoveIssue
<1>4. ASSUME NEW i \in Item, Edit(i) PROVE FocusInv' /\ EditsStayInCart'
  BY <1>4 DEF Edit, Browsing
<1>5. ASSUME NEW i \in Item, Pause(i) PROVE FocusInv' /\ EditsStayInCart'
  BY <1>1, <1>5 DEF Pause, Put
<1>6. ASSUME NEW i \in Item, Blur(i) PROVE FocusInv' /\ EditsStayInCart'
  BY <1>1, <1>6 DEF Blur, BlurClears
<1>7. ASSUME NEW i \in Item, Follow(i) PROVE FocusInv' /\ EditsStayInCart'
  BY <1>7 DEF Follow
<1>8. CASE Ask \/ \E fresh \in asked : Refresh(fresh) \/ LoadFails(fresh)
  BY <1>8 DEF Ask, Refresh, LoadFails
<1>9. CASE \/ \E c \in Channels : SelectChannel(c)
           \/ CancelSwitch \/ CloseDrawer \/ OpenDrawer
  BY <1>9 DEF SelectChannel, CancelSwitch, CloseDrawer, OpenDrawer
<1>10. CASE ConfirmSwitch \/ Reload
  BY <1>10 DEF ConfirmSwitch, Reload
<1>11. ASSUME NEW r \in Run,
              \/ ClickCheckout(r) \/ SkipNudge(r) \/ Revalidated(r)
              \/ RevalidationFails(r) \/ Serve(r) \/ CheckoutFails(r)
       PROVE  FocusInv' /\ EditsStayInCart'
  <2>1. UNCHANGED <<focus, timer, drawer, cart, cleared>>
    BY <1>11 DEF ClickCheckout, SkipNudge, Revalidated, RevalidationFails, Serve,
                 CheckoutFails
  <2> QED
    BY <2>1
<1>12. ASSUME NEW r \in Run, Cleared(r) PROVE FocusInv' /\ EditsStayInCart'
  BY <1>1, <1>12 DEF Cleared
<1>13. CASE UNCHANGED cartVars
  BY <1>13 DEF cartVars
<1> QED
  BY <1>2, <1>3, <1>4, <1>5, <1>6, <1>7, <1>8, <1>9, <1>10, <1>11, <1>12, <1>13, CartCases

\* Whoever changes the Channel without being asked keeps the cart to it.
LEMMA ChooseKeeps ==
    ASSUME SightInv, loaded, NEW c \in Channels, Choose(c)
    PROVE  \A i \in InCart \ (linked \cup lost) : Home[i] \in {NoChannel, selected'}
<1>1. CASE selected' = selected
  BY <1>1 DEF SightInv
<1>2. CASE ~Conflict(c) /\ selected' = c
  <2>1. \A i \in InCart \ lost : i \in OnScreen
    BY DEF SightInv
  <2> QED
    BY <1>2, <2>1 DEF Conflict, HomeOf, InCart
<1> QED
  BY <1>1, <1>2 DEF Choose, choice

\* Adding an item of the screen that is shared, of the Channel or linked.
LEMMA SightNext ==
    ASSUME CartTypeOK, SightInv, [CartNext]_cartVars
    PROVE  SightInv'
<1> USE DEF server, lists, choice, editing, review, history
<1>1. /\ cart \in [Item -> 0..Stock] /\ Stock \in Nat \ {0}
      /\ linked \subseteq Item /\ lost \subseteq Item /\ timer \subseteq Item
  BY ConstantsAssumption DEF CartTypeOK, Contents
<1>2. /\ OnScreen = Range(shown) /\ OnScreen' = Range(shown')
      /\ InCart = {i \in Item : cart[i] > 0} /\ InCart' = {i \in Item : cart'[i] > 0}
  BY DEF OnScreen, InCart
<1>3. /\ pending # NoChannel => loaded
      /\ loaded => InCart \ OnScreen \subseteq lost
      /\ \A i \in InCart \ (linked \cup lost) : Home[i] \in {NoChannel, selected}
  BY DEF SightInv
<1>4. ASSUME UNCHANGED <<pending, loaded, shown, cart, selected>>,
             linked \subseteq linked', lost \subseteq lost'
      PROVE  SightInv'
  <2>1. InCart' = InCart /\ OnScreen' = OnScreen
    BY <1>2, <1>4
  <2> QED
    BY <1>3, <1>4, <2>1 DEF SightInv
<1>5. ASSUME NEW i \in Item, Change(i) \/ Edit(i)
      PROVE  SightInv'
  BY <1>4, <1>5 DEF Change, Listing, Edit
<1>6. ASSUME NEW i \in Item, Add(i) \/ Increment(i) PROVE SightInv'
  <2>1. InView(i) /\ UNCHANGED <<pending, loaded, shown, selected, linked, lost>>
    BY <1>6 DEF Add, Increment
  <2>2. InCart' \subseteq InCart \cup {i}
    BY <1>1, <1>2, <1>6 DEF Add, Increment, Put
  <2>3. OnScreen' = OnScreen
    BY <1>2, <2>1
  <2> QED
    BY <1>3, <2>1, <2>2, <2>3 DEF SightInv, InView
<1>7. ASSUME NEW out, UNCHANGED <<pending, loaded, shown, selected>>,
             linked' = linked \ out, lost' = lost \ out,
             InCart' \subseteq InCart \ out
      PROVE  SightInv'
  <2>1. OnScreen' = OnScreen
    BY <1>2, <1>7
  <2> QED
    BY <1>3, <1>7, <2>1 DEF SightInv
<1>8. ASSUME NEW i \in Item, Decrement(i) PROVE SightInv'
  <2>1. CASE cart[i] = 1
    <3>1. InCart' \subseteq InCart \ {i}
      BY <1>1, <1>2, <1>8, <2>1 DEF Decrement
    <3> QED
      BY <1>7, <1>8, <2>1, <3>1 DEF Decrement, Forget
  <2>2. CASE cart[i] # 1
    <3>1. InCart' \subseteq InCart
      BY <1>1, <1>2, <1>8 DEF Decrement
    <3>2. UNCHANGED <<pending, loaded, shown, selected, linked, lost>>
      BY <1>8, <2>2 DEF Decrement
    <3>3. OnScreen' = OnScreen
      BY <1>2, <3>2
    <3> QED
      BY <1>3, <3>1, <3>2, <3>3 DEF SightInv
  <2> QED
    BY <2>1, <2>2
<1>9. ASSUME NEW i \in Item, RemoveItem(i) \/ RemoveIssue(i) PROVE SightInv'
  <2>1. InCart' \subseteq InCart \ {i}
    BY <1>1, <1>2, <1>9 DEF RemoveItem, RemoveIssue, TakeOut
  <2> QED
    BY <1>7, <1>9, <2>1 DEF RemoveItem, RemoveIssue, TakeOut, Forget
<1>10. ASSUME NEW i \in Item, Pause(i) PROVE SightInv'
  <2>1. InCart' \subseteq InCart \cup {i}
    BY <1>1, <1>2, <1>10 DEF Pause, Put
  <2>2. /\ lost' = lost \cup ({i} \ InCart)
        /\ UNCHANGED <<pending, loaded, shown, selected, linked>>
    BY <1>10 DEF Pause
  <2>3. OnScreen' = OnScreen
    BY <1>2, <2>2
  <2> QED
    BY <1>3, <2>1, <2>2, <2>3 DEF SightInv
<1>11. ASSUME NEW i \in Item, Blur(i) PROVE SightInv'
  <2>1. cart' = cart
    BY <1>1, <1>2, <1>11 DEF Blur, Put
  <2> QED
    BY <1>4, <1>11, <2>1 DEF Blur
<1>12. ASSUME NEW i \in Item, Follow(i) PROVE SightInv'
  <2>1. /\ loaded /\ i \in OnScreen /\ linked' = linked \cup {i}
        /\ UNCHANGED <<loaded, shown, lost>>
    BY <1>12 DEF Follow
  <2>2. InCart' \subseteq InCart \cup {i}
    BY <1>1, <1>2, <1>12 DEF Follow, Put
  <2>3. \A j \in InCart \ (linked \cup lost) : Home[j] \in {NoChannel, selected'}
    <3>1. CASE Home[i] = NoChannel
      BY <1>3, <1>12, <3>1 DEF Follow
    <3>2. CASE Home[i] # NoChannel
      <4>1. Home[i] \in Channels /\ Choose(Home[i])
        BY <1>12, <3>2, ConstantsAssumption DEF Follow
      <4> QED
        BY <2>1, <4>1, ChooseKeeps
    <3> QED
      BY <3>1, <3>2
  <2>4. OnScreen' = OnScreen
    BY <1>2, <2>1
  <2> QED
    BY <1>3, <2>1, <2>2, <2>3, <2>4 DEF SightInv
<1>13. ASSUME UNCHANGED <<pending, cart, selected, linked>>, Missing(shown')
       PROVE  loaded' => SightInv'
  <2>1. InCart' = InCart
    BY <1>2, <1>13
  <2> QED
    BY <1>2, <1>3, <1>13, <2>1 DEF SightInv, Missing
<1>14. CASE Ask
  BY <1>4, <1>14 DEF Ask
<1>15. ASSUME NEW fresh \in asked, Refresh(fresh) \/ LoadFails(fresh) PROVE SightInv'
  <2>1. CASE Refresh(fresh)
    BY <1>13, <2>1 DEF Refresh
  <2>2. CASE LoadFails(fresh)
    <3>1. Missing(shown')
      BY <2>2 DEF LoadFails, Missing
    <3> QED
      BY <1>13, <2>2, <3>1 DEF LoadFails
  <2> QED
    BY <1>15, <2>1, <2>2
<1>16. ASSUME NEW c \in Channels, SelectChannel(c) PROVE SightInv'
  <2>1. /\ loaded /\ Choose(c) /\ UNCHANGED <<loaded, shown, cart, linked, lost>>
    BY <1>16 DEF SelectChannel
  <2>2. InCart' = InCart /\ OnScreen' = OnScreen
    BY <1>2, <2>1
  <2> QED
    BY <1>3, <2>1, <2>2, ChooseKeeps DEF SightInv
<1>17. CASE ConfirmSwitch
  <2> DEFINE out == {i \in Item : cart'[i] = 0}
  <2>1. /\ pending # NoChannel /\ selected' = pending /\ pending' = NoChannel
        /\ linked' = linked \ out /\ lost' = lost \ out /\ UNCHANGED <<loaded, shown>>
    BY <1>17 DEF ConfirmSwitch, Forget
  <2>2. cart' = [i \in Item |-> IF Keeps(i, pending) THEN cart[i] ELSE 0]
    BY <1>17 DEF ConfirmSwitch
  <2>3. /\ InCart' \subseteq InCart /\ \A i \in InCart' : i \notin out
        /\ \A i \in InCart' : Keeps(i, pending)
    BY <1>1, <1>2, <2>2
  <2> HIDE DEF out
  <2>4. OnScreen' = OnScreen
    BY <1>2, <2>1
  <2>5. InCart' \ OnScreen' \subseteq lost'
    BY <1>3, <2>1, <2>3, <2>4
  <2>6. \A i \in InCart' \ (linked' \cup lost') : Home[i] \in {NoChannel, selected'}
    BY <2>1, <2>3, <2>4, <2>5 DEF Keeps, HomeOf
  <2> QED
    BY <2>1, <2>5, <2>6 DEF SightInv
<1>18. CASE CancelSwitch \/ OpenDrawer \/ CloseDrawer
  <2>1. CASE CancelSwitch
    <3>1. UNCHANGED <<loaded, shown, cart, selected, linked, lost>> /\ pending' = NoChannel
      BY <2>1 DEF CancelSwitch
    <3>2. InCart' = InCart /\ OnScreen' = OnScreen
      BY <1>2, <3>1
    <3> QED
      BY <1>3, <3>1, <3>2 DEF SightInv
  <2>2. CASE OpenDrawer \/ CloseDrawer
    BY <1>4, <2>2 DEF OpenDrawer, CloseDrawer
  <2> QED
    BY <1>18, <2>1, <2>2
<1>19. CASE Reload
  <2>1. InCart' = InCart
    BY <1>2, <1>19 DEF Reload
  <2> QED
    BY <1>3, <1>19, <2>1 DEF Reload, SightInv
<1>20. ASSUME NEW r \in Run,
              \/ ClickCheckout(r) \/ SkipNudge(r) \/ RevalidationFails(r)
              \/ Serve(r) \/ CheckoutFails(r)
       PROVE  SightInv'
  <2>1. UNCHANGED <<pending, loaded, shown, cart, selected, linked, lost>>
    BY <1>20 DEF ClickCheckout, SkipNudge, RevalidationFails, Serve, CheckoutFails
  <2> QED
    BY <1>4, <2>1
<1>21. ASSUME NEW r \in Run, Revalidated(r) PROVE SightInv'
  <2>1. UNCHANGED <<pending, loaded, cart, selected, linked>> /\ Missing(shown')
    BY <1>21 DEF Revalidated
  <2>2. CASE loaded'
    BY <1>13, <2>1, <2>2
  <2>3. CASE ~loaded'
    <3>1. InCart' = InCart /\ lost \subseteq lost'
      BY <1>2, <2>1 DEF Missing
    <3> QED
      BY <1>3, <2>1, <2>3, <3>1 DEF SightInv
  <2> QED
    BY <2>2, <2>3
<1>22. ASSUME NEW r \in Run, Cleared(r) PROVE SightInv'
  <2>1. InCart' = {}
    <3>1. cart' = Empty
      BY <1>22 DEF Cleared
    <3>2. \A i \in Item : Empty[i] = 0
      BY ContentsTypes
    <3> QED
      BY <1>2, <3>1, <3>2
  <2> QED
    BY <1>3, <1>22, <2>1 DEF Cleared, SightInv
<1>23. CASE UNCHANGED cartVars
  BY <1>4, <1>23 DEF cartVars
<1> QED
  BY <1>5, <1>6, <1>8, <1>9, <1>10, <1>11, <1>12, <1>14, <1>15, <1>16, <1>17, <1>18, <1>19,
     <1>20, <1>21, <1>22, <1>23, CartCases

\* What is posted is what the answer to the click could fill.
LEMMA PostsNext ==
    ASSUME CartTypeOK, PostsWhatItChecked, [CartNext]_cartVars
    PROVE  PostsWhatItChecked'
<1> USE DEF server, lists, choice, editing, review, history
<1> DEFINE Good(q) == q.stage = "posting" =>
                         \A i \in Item : q.cart[i] > 0 =>
                            i \in q.fresh.listed /\ q.cart[i] <= q.fresh.left[i]
<1>1. \A r \in Run : Good(run[r])
  BY DEF PostsWhatItChecked, Fillable
<1>2. SUFFICES \A r \in Run : Good(run'[r])
  BY DEF PostsWhatItChecked, Fillable
<1>3. run \in [Run -> [stage : {"none", "checking", "posting", "accepted", "refused"},
                       cart : Contents, channel : Place, ack : BOOLEAN,
                       fresh : Answer]]
  BY DEF CartTypeOK
<1>4. Good(Ended) /\ \A a \in {"accepted", "refused"} : Good([Ended EXCEPT !.stage = a])
  BY DEF Ended
<1>5. ASSUME UNCHANGED run PROVE \A r \in Run : Good(run'[r])
  BY <1>1, <1>5
<1>6. ASSUME NEW r \in Run, NEW q, run' = [run EXCEPT ![r] = q], Good(q)
      PROVE  \A s \in Run : Good(run'[s])
  <2> HIDE DEF Good
  <2>1. \A s \in Run : run'[s] = IF s = r THEN q ELSE run[s]
    BY <1>3, <1>6
  <2> TAKE s \in Run
  <2>2. CASE s = r
    <3>1. run'[s] = q
      BY <2>1, <2>2
    <3> QED
      BY <1>6, <3>1
  <2>3. CASE s # r
    <3>1. run'[s] = run[s]
      BY <2>1, <2>3
    <3> QED
      BY <1>1, <3>1
  <2> QED
    BY <2>2, <2>3
<1>7. ASSUME NEW i \in Item,
             \/ Change(i) \/ Add(i) \/ Increment(i) \/ Decrement(i) \/ RemoveItem(i)
             \/ Edit(i) \/ Pause(i) \/ Blur(i) \/ Follow(i) \/ RemoveIssue(i)
      PROVE  run' = run
  <2>1. CASE Change(i)
    BY <2>1 DEF Change, Listing
  <2> QED
    BY <1>7, <2>1 DEF Add, Increment, Decrement, RemoveItem, Edit, Pause,
                      Blur, Follow, RemoveIssue
<1>8. CASE \/ Ask \/ \E fresh \in asked : Refresh(fresh) \/ LoadFails(fresh)
           \/ \E c \in Channels : SelectChannel(c)
           \/ ConfirmSwitch \/ CancelSwitch \/ OpenDrawer \/ CloseDrawer
           \/ UNCHANGED cartVars
  <2>1. run' = run
    BY <1>8 DEF Ask, Refresh, LoadFails, SelectChannel, ConfirmSwitch,
                CancelSwitch, OpenDrawer, CloseDrawer, cartVars
  <2> QED
    BY <1>5, <2>1
<1>9. CASE Reload
  <2>1. run' = [r \in Run |-> Ended]
    BY <1>9 DEF Reload
  <2> HIDE DEF Good
  <2>2. \A r \in Run : run'[r] = Ended
    BY <2>1
  <2> TAKE r \in Run
  <2>3. run'[r] = Ended
    BY <2>2
  <2> QED
    BY <1>4, <2>3
<1>10. ASSUME NEW r \in Run, ClickCheckout(r) \/ SkipNudge(r)
       PROVE  \A s \in Run : Good(run'[s])
  <2> DEFINE q == [stage |-> "checking", cart |-> cart, channel |-> selected, ack |-> ack,
                   fresh |-> Now]
  <2>1. run' = [run EXCEPT ![r] = q]
    BY <1>10 DEF ClickCheckout, SkipNudge, Starts
  <2>2. Good(q)
    OBVIOUS
  <2> HIDE DEF Good, q
  <2> QED
    BY <1>6, <2>1, <2>2
<1>11. ASSUME NEW r \in Run, Revalidated(r)
       PROVE  \A s \in Run : Good(run'[s])
  <2> DEFINE q == [run[r] EXCEPT !.stage = "posting", !.cart = Sent(r), !.ack = FALSE]
  <2>1. CASE run' = [run EXCEPT ![r] = Ended]
    <3> HIDE DEF Good
    <3> QED
      BY <1>4, <1>6, <2>1
  <2>2. CASE Unavailable(r) = {} /\ run' = [run EXCEPT ![r] = q]
    <3>1. q.cart = run[r].cart /\ q.fresh = run[r].fresh
      BY <1>3 DEF Sent
    <3>2. /\ run[r].cart \in [Item -> 0..Stock] /\ run[r].fresh.left \in [Item -> 0..Stock]
      BY <1>3 DEF Contents, Answer
    <3>3. \A i \in Item : run[r].cart[i] > 0 =>
             i \in run[r].fresh.listed /\ run[r].cart[i] <= run[r].fresh.left[i]
      BY <2>2, <3>2 DEF Unavailable
    <3> HIDE DEF q
    <3>4. Good(q)
      BY <3>1, <3>3
    <3> HIDE DEF Good
    <3> QED
      BY <1>6, <2>2, <3>4
  <2>3. \/ run' = [run EXCEPT ![r] = Ended]
        \/ Unavailable(r) = {} /\ run' = [run EXCEPT ![r] = q]
    BY <1>3, <1>11 DEF Revalidated
  <2> QED
    BY <2>1, <2>2, <2>3
<1>12. ASSUME NEW r \in Run,
              RevalidationFails(r) \/ Serve(r) \/ Cleared(r) \/ CheckoutFails(r)
       PROVE  \A s \in Run : Good(run'[s])
  <2>1. \E q \in {Ended, [Ended EXCEPT !.stage = "accepted"],
                  [Ended EXCEPT !.stage = "refused"]} : run' = [run EXCEPT ![r] = q]
    BY <1>12 DEF RevalidationFails, Serve, Cleared, CheckoutFails
  <2> HIDE DEF Good
  <2> QED
    BY <1>4, <1>6, <2>1
<1> HIDE DEF Good
<1> QED
  BY <1>5, <1>7, <1>8, <1>9, <1>10, <1>11, <1>12, CartCases

LEMMA CartInitial ==
    ASSUME CartInit
    PROVE  CartTypeOK /\ CartInv
<1>1. /\ Empty \in Contents /\ \A i \in Item : Empty[i] = 0
      /\ Stock \in Nat \ {0} /\ MaxChanges \in Nat
  <2>1. Stock \in Nat \ {0} /\ 0 \in 0..Stock
    BY ConstantsAssumption
  <2> QED
    BY <2>1, ConstantsAssumption DEF Empty, Contents
<1>2. Empty \in [Item -> 0..Stock]
  BY <1>1 DEF Contents
<1>3. Ended \in [stage : {"none"}, cart : Contents, channel : Place, ack : BOOLEAN,
                   fresh : Answer] /\ Ended.stage = "none"
  <2>1. [listed |-> {}, left |-> Empty] \in Answer
    BY <1>2 DEF Answer
  <2> QED
    BY <1>1, <2>1 DEF Ended, Place
<1>4. << >> \in Seq(Item) /\ IsInjective(<< >>)
  BY DEF IsInjective
<1>5. left \in [Item -> 0..Stock]
  BY <1>1 DEF CartInit
<1>6. CartTypeOK
  <2> HIDE DEF Ended
  <2>1. run \in [Run -> [stage : {"none", "checking", "posting", "accepted", "refused"},
                         cart : Contents, channel : Place, ack : BOOLEAN,
                         fresh : Answer]]
    BY <1>3 DEF CartInit
  <2>2. /\ listed \subseteq Item /\ left \in [Item -> 0..Stock] /\ changes \in 0..MaxChanges
        /\ loaded \in BOOLEAN /\ asked \subseteq Answer
        /\ shown \in Seq(Item) /\ IsInjective(shown)
        /\ known \in [Item -> 0..Stock] /\ stale \subseteq Item
    <3>1. shown = << >> /\ known = Empty
      BY DEF CartInit
    <3>2. shown \in Seq(Item) /\ IsInjective(shown) /\ known \in [Item -> 0..Stock]
      BY <1>2, <1>4, <3>1
    <3>3. changes \in 0..MaxChanges
      BY <1>1 DEF CartInit
    <3> QED
      BY <1>5, <3>2, <3>3 DEF CartInit
  <2>3. /\ cart \in Contents /\ \A i \in Item \ Reward : cart[i] <= 1
        /\ selected \in Place /\ pending \in Place
    <3>1. cart = Empty
      BY DEF CartInit
    <3>2. \A i \in Item \ Reward : cart[i] <= 1
      BY <1>1, <3>1
    <3> QED
      BY <1>1, <3>1, <3>2 DEF CartInit, Place
  <2>4. /\ followed \subseteq Item /\ focus \subseteq Item /\ timer \subseteq Item
        /\ drawer \in BOOLEAN /\ phase \in {"idle", "checking", "nudge", "issues"}
        /\ ack \in BOOLEAN /\ issues \subseteq Item /\ submitting \in BOOLEAN
        /\ cleared \subseteq Item /\ linked \subseteq Item /\ lost \subseteq Item
    BY DEF CartInit
  <2> QED
    BY <2>1, <2>2, <2>3, <2>4 DEF CartTypeOK
<1>7. InCart = {}
  BY <1>1 DEF CartInit, InCart
<1>8. PostsWhatItChecked
  <2>1. \A r \in Run : run[r] = Ended
    BY DEF CartInit
  <2> QED
    BY <1>3, <2>1 DEF PostsWhatItChecked
<1> QED
  BY <1>6, <1>7, <1>8
     DEF CartInit, CartInv, FocusInv, EditsStayInCart, SightInv

\* The cart has its types, and with them its invariant: the donor types in one field
\* and only what is typed waits to be synced (CartContext.tsx, useAmountSync), the
\* lists hold the cart of a loaded page but for what is lost, and a checkout posts
\* what the answer to its click could fill.
THEOREM CartCorrect ==
    CartSpec => [](CartTypeOK /\ CartInv)
<1>1. CartInit => CartTypeOK /\ CartInv
  BY CartInitial
<1>2. CartTypeOK /\ CartInv /\ [CartNext]_cartVars => (CartTypeOK /\ CartInv)'
  BY CartTypesNext, FocusNext, SightNext, PostsNext DEF CartInv
<1> QED
  BY <1>1, <1>2, PTL DEF CartSpec

\* What the donor removed does not come back when a debounced edit of it fires: an
\* edit waits for an item of the cart or for one a checkout cleared.
THEOREM EditsStay ==
    CartSpec => []EditsStayInCart
<1>1. CartInv => EditsStayInCart
  BY DEF CartInv
<1> QED
  BY <1>1, CartCorrect, PTL

\* A checkout posts only what the answer to its own click could fill, whatever is
\* added, closed or sold meanwhile (CartDrawer.tsx, runCheckout).
THEOREM PostsWhatWasChecked ==
    CartSpec => []PostsWhatItChecked
<1>1. CartInv => PostsWhatItChecked
  BY DEF CartInv
<1> QED
  BY <1>1, CartCorrect, PTL

\* With no switch pending the cart is of the selected Channel, but for links and for
\* what the lists lost sight of (CartContext.tsx, selectChannel and confirmSwitch).
THEOREM CartOfOneChannel ==
    CartSpec => []OneChannel
<1>1. CartInv => OneChannel
  BY DEF CartInv, SightInv, OneChannel
<1> QED
  BY <1>1, CartCorrect, PTL

\* A background refresh takes nothing of the cart off the screen, reorders nothing,
\* and marks what the server no longer lists (CartContext.tsx, mergeById).
THEOREM RefreshKeepsSelection ==
    CartSpec => SelectionKept
<1> DEFINE Kept == \A fresh \in asked \ asked' :
           loaded /\ loaded' /\ <<known, shown, stale>>' # <<known, shown, stale>> =>
               /\ OnScreen \cap InCart \subseteq Range(shown')
               /\ IsPrefix(Only(shown, Range(shown')), shown')
               /\ (OnScreen \cap InCart) \ fresh.listed = stale'
<1>1. CartTypeOK /\ [CartNext]_cartVars => [Kept]_cartVars
  <2> SUFFICES ASSUME CartTypeOK, [CartNext]_cartVars PROVE Kept \/ UNCHANGED cartVars
    OBVIOUS
  <2> USE DEF server, lists, choice, editing, review, history
  <2>1. ASSUME NEW f \in asked, Refresh(f) PROVE Kept
    <3>1. SUFFICES ASSUME NEW fresh \in asked \ asked', loaded
                   PROVE  /\ OnScreen \cap InCart \subseteq Range(shown')
                          /\ IsPrefix(Only(shown, Range(shown')), shown')
                          /\ (OnScreen \cap InCart) \ fresh.listed = stale'
      OBVIOUS
    <3>2. fresh = f
      BY <2>1 DEF Refresh
    <3>3. /\ shown' \in Merge(shown, fresh)
          /\ stale' = (OnScreen \cap InCart) \ fresh.listed
      BY <2>1, <3>1, <3>2 DEF Refresh
    <3>4. /\ shown \in Seq(Item) /\ IsInjective(shown) /\ fresh.listed \subseteq Item
      BY DEF CartTypeOK, Answer
    <3>5. /\ Range(shown') \cap Range(shown)
               = Range(shown) \cap (fresh.listed \cup InCart)
          /\ IsPrefix(Only(shown, Range(shown')), shown')
      BY <3>3, <3>4, MergeIs
    <3> QED
      BY <3>3, <3>5 DEF OnScreen
  <2>2. ASSUME asked \subseteq asked' PROVE Kept
    BY <2>2
  <2>3. ASSUME UNCHANGED <<known, shown, stale>> PROVE Kept
    BY <2>3
  <2>4. CASE Reload
    BY <2>4 DEF Reload
  <2> HIDE DEF Kept
  <2>5. \A fresh \in asked : LoadFails(fresh) => Kept
    BY <2>3 DEF LoadFails
  <2>6. Ask => Kept
    BY <2>2 DEF Ask
  <2>7. \A i \in Item :
           (\/ Change(i) \/ Add(i) \/ Increment(i) \/ Decrement(i)
            \/ RemoveItem(i) \/ Edit(i) \/ Pause(i) \/ Blur(i) \/ Follow(i)
            \/ RemoveIssue(i)) => asked' = asked
    <3>1. \A i \in Item : Change(i) => asked' = asked
      BY DEF Change, Listing
    <3> QED
      BY <3>1 DEF Add, Increment, Decrement, RemoveItem, Edit, Pause, Blur,
                  Follow, RemoveIssue
  <2>8. (\/ \E c \in Channels : SelectChannel(c)
         \/ ConfirmSwitch \/ CancelSwitch \/ OpenDrawer \/ CloseDrawer) => asked' = asked
    BY DEF SelectChannel, ConfirmSwitch, CancelSwitch, OpenDrawer, CloseDrawer
  <2>9. \A r \in Run :
           (\/ ClickCheckout(r) \/ SkipNudge(r) \/ Revalidated(r)
            \/ RevalidationFails(r) \/ Serve(r) \/ Cleared(r)
            \/ CheckoutFails(r)) => asked' = asked
    BY DEF ClickCheckout, SkipNudge, Revalidated, RevalidationFails, Serve,
           Cleared, CheckoutFails
  <2> QED
    BY <2>1, <2>2, <2>4, <2>5, <2>6, <2>7, <2>8, <2>9, CartCases
<1>2. CartSpec => [][Kept]_cartVars
  BY <1>1, CartCorrect, PTL DEF CartSpec
<1> QED
  BY <1>2 DEF SelectionKept
=============================================================================
