-------------------------------- MODULE Access --------------------------------
(***************************************************************************)
(* Who is who: the magic tokens of donors (services/auth.ts,               *)
(* routes/auth.ts), sign-in with a provider (services/oauth.ts), sessions, *)
(* roles and the middleware that asks for them (lib/roles.ts,              *)
(* lib/session.ts, middleware/), the staff routes that change them, and    *)
(* the pages that hold a session: the wallet of a donor                    *)
(* (pages/MyWallet.tsx) and the donors page of staff                       *)
(* (pages/admin/AdminDonors.tsx).                                          *)
(*                                                                         *)
(* A request is let in by one statement and acts by a later one; anything  *)
(* may happen between.  Tokens are numbered in the order they are made and *)
(* 0 is no token; a link that was mailed once can be followed for ever.    *)
(***************************************************************************)
EXTENDS Integers

CONSTANTS
    Donor,      \* emails
    None,
    Request,    \* requests that can be under way at once
    Allowed,    \* ADMIN_EMAILS and MODERATOR_EMAILS
    MaxTokens,  \* bound: tokens that are made
    MaxStaff    \* bound: what staff change

Role == 0..2
USER == 0
MODERATOR == 1
ADMIN == 2

ASSUME ConstantsAssumption ==
    /\ None \notin Donor /\ Allowed \in [Donor -> Role]
    /\ MaxTokens \in Nat /\ MaxStaff \in Nat

VARIABLES
    donors,     \* Donor: the emails that have a row
    token,      \* magic_token
    expired,    \* token_expires_at has passed
    frozen,     \* is_frozen
    role,       \* role, as stored
    verified,   \* email_verified
    issued, changes,
    pc, actor, rank,    \* requests: how far, for whom and with which role
    cookie, marker,     \* a browser: the session cookie and the mark in localStorage
    page, answer,       \* its wallet page and the answer that it waits for
    selected, panel, opening, acting,  \* the donors page of staff
    dead,       \* history: tokens that a rotation or a revocation has ended
    granted,    \* history: the highest role staff have ever given
    proved,     \* history: emails that Google or Discord has vouched for
    overlapped  \* history: another wallet was on its way when this one was opened

accounts == <<donors, token, expired, frozen, role, verified, issued, dead, granted, proved>>
requests == <<pc, actor, rank>>
browser == <<cookie, marker, page, answer>>
console == <<selected, panel, opening, acting, overlapped>>
vars == <<accounts, changes, requests, browser, console>>

Token == 0..MaxTokens

TypeOK ==
    /\ donors \subseteq Donor /\ token \in [Donor -> Token]
    /\ expired \subseteq Donor /\ frozen \subseteq Donor
    /\ role \in [Donor -> Role] /\ verified \subseteq Donor
    /\ issued \in Token /\ changes \in 0..MaxStaff
    /\ pc \in [Request -> {"idle", "asked", "in"}]
    /\ actor \in [Request -> Donor \cup {None}] /\ rank \in [Request -> Role]
    /\ cookie \in Token /\ marker \in BOOLEAN
    /\ page \in {"away", "loading", "login", "wallet"} /\ answer \in Donor \cup {None}
    /\ selected \in Donor \cup {None} /\ panel \in Donor \cup {None}
    /\ opening \subseteq Donor /\ acting \in Donor \cup {None} /\ overlapped \in BOOLEAN
    /\ dead \subseteq Token /\ granted \in [Donor -> Role] /\ proved \subseteq Donor

Init ==
    /\ donors = {} /\ token = [d \in Donor |-> 0]
    /\ expired = {} /\ frozen = {} /\ role = [d \in Donor |-> USER] /\ verified = {}
    /\ issued = 0 /\ changes = 0
    /\ pc = [r \in Request |-> "idle"] /\ actor = [r \in Request |-> None]
    /\ rank = [r \in Request |-> USER]
    /\ cookie = 0 /\ marker = FALSE /\ page = "away" /\ answer = None
    /\ selected = None /\ panel = None /\ opening = {}
    /\ acting = None /\ overlapped = FALSE
    /\ dead = {} /\ granted = [d \in Donor |-> USER] /\ proved = {}

-----------------------------------------------------------------------------
(* Tokens and roles                                                        *)

Fresh == issued + 1

\* The token of d becomes t, for another TOKEN_TTL_MS.
Rotate(d, t) ==
    /\ token' = [token EXCEPT ![d] = t]
    /\ dead' = dead \cup ({token[d]} \ {0, t})
    /\ expired' = expired \ {d}
    /\ issued' = IF t > issued THEN t ELSE issued

\* Whom a token lets in.
Valid(d, t) == d \in donors \ (frozen \cup expired) /\ t # 0 /\ token[d] = t

\* The allowlists count for a verified email only, and never take away.
EffectiveRole(d) == IF d \in verified /\ Allowed[d] > role[d] THEN Allowed[d] ELSE role[d]

-----------------------------------------------------------------------------
(* Donors                                                                  *)

\* A donation makes the row, or extends the life of the token that is there.
Donate(d) ==
    /\ IF d \in donors
       THEN expired' = expired \ {d} /\ UNCHANGED <<donors, token, issued, dead>>
       ELSE donors' = donors \cup {d} /\ Fresh <= MaxTokens /\ Rotate(d, Fresh)
    /\ UNCHANGED <<frozen, role, verified, granted, proved, changes, requests, browser, console>>

Expire(d) ==
    /\ token[d] # 0 /\ d \notin expired /\ expired' = expired \cup {d}
    /\ UNCHANGED <<donors, token, frozen, role, verified, issued, dead, granted, proved, changes,
                   requests, browser, console>>

\* POST /auth/request-token: the answer is the same for everybody.
AskLink(r, d) ==
    /\ pc[r] = "idle" /\ d \in donors \ frozen
    /\ pc' = [pc EXCEPT ![r] = "asked"] /\ actor' = [actor EXCEPT ![r] = d]
    /\ UNCHANGED <<accounts, changes, rank, browser, console>>

SendLink(r) ==
    /\ pc[r] = "asked"
    /\ Fresh <= MaxTokens /\ Rotate(actor[r], Fresh)
    /\ pc' = [pc EXCEPT ![r] = "idle"] /\ actor' = [actor EXCEPT ![r] = None]
    /\ UNCHANGED <<donors, frozen, role, verified, granted, proved, changes, rank, browser, console>>

\* Mutant: Twitch shows an email, so the email is taken to be proved.
Vouches_Twitch(provider) == TRUE

\* Google and Discord, which is handled like Google, can vouch for an email and say
\* whether they do; Twitch cannot.
Vouches(provider) == provider # "twitch"

\* GET /auth/:provider/callback makes or rotates the token of the email.  The row
\* tells that the account is frozen when it is written already.
SignIn(d, provider, flag) ==
    /\ Fresh <= MaxTokens /\ page \in {"away", "login"}
    /\ Rotate(d, Fresh) /\ donors' = donors \cup {d}
    /\ verified' = IF flag /\ Vouches(provider) THEN verified \cup {d} ELSE verified
    /\ proved' = IF flag /\ provider = "google" THEN proved \cup {d} ELSE proved
    /\ IF d \in frozen THEN page' = "login" /\ UNCHANGED <<cookie, answer>>
       ELSE page' = "loading" /\ cookie' = Fresh /\ answer' = d
    /\ UNCHANGED <<frozen, role, granted, changes, requests, marker, console>>

-----------------------------------------------------------------------------
(* Requests                                                                *)

\* donorAuth: the cookie of the browser, or a token in the Authorization header.
Authenticate(r, d, t) ==
    /\ pc[r] = "idle" /\ Valid(d, t)
    /\ pc' = [pc EXCEPT ![r] = "in"] /\ actor' = [actor EXCEPT ![r] = d]
    /\ rank' = [rank EXCEPT ![r] = EffectiveRole(d)]
    /\ UNCHANGED <<accounts, changes, browser, console>>

\* Any route that changes nothing here; GET /donor is one.
Serve(r) ==
    /\ pc[r] = "in"
    /\ pc' = [pc EXCEPT ![r] = "idle"] /\ actor' = [actor EXCEPT ![r] = None]
    /\ rank' = [rank EXCEPT ![r] = USER]
    /\ UNCHANGED <<accounts, changes, browser, console>>

-----------------------------------------------------------------------------
(* Staff: an ADMIN, or the holder of the admin key                         *)

Change == changes < MaxStaff /\ changes' = changes + 1
MayAdminister(r) == pc[r] = "in" /\ rank[r] = ADMIN

CreateDonor(d, x) ==
    /\ d \notin donors /\ donors' = donors \cup {d}
    /\ role' = [role EXCEPT ![d] = x] /\ granted' = [granted EXCEPT ![d] = x]
    /\ UNCHANGED <<token, expired, frozen, verified, issued, dead, proved>>

SetRole(d, x) ==
    /\ d \in donors
    /\ role' = [role EXCEPT ![d] = x]
    /\ granted' = [granted EXCEPT ![d] = IF x > granted[d] THEN x ELSE granted[d]]
    /\ UNCHANGED <<donors, token, expired, frozen, verified, issued, dead, proved>>

\* Mutant: the token is made to expire and stays in the row.
RevokeToken_Expires(d) ==
    /\ d \in donors /\ expired' = expired \cup {d} /\ dead' = dead \cup ({token[d]} \ {0})
    /\ UNCHANGED <<donors, token, issued, frozen, role, verified, granted, proved>>

RevokeToken(d) ==
    /\ d \in donors /\ Rotate(d, 0)
    /\ UNCHANGED <<donors, frozen, role, verified, granted, proved>>

RegenerateToken(d) ==
    /\ d \in donors /\ Fresh <= MaxTokens /\ Rotate(d, Fresh)
    /\ UNCHANGED <<donors, frozen, role, verified, granted, proved>>

Freeze(d, f) ==
    /\ d \in donors /\ frozen' = IF f THEN frozen \cup {d} ELSE frozen \ {d}
    /\ UNCHANGED <<donors, token, expired, role, verified, issued, dead, granted, proved>>

\* What the panel of a donor offers: the routes act on the donor of the request.
Administers(d) ==
    \/ \E x \in Role : SetRole(d, x)
    \/ \E f \in BOOLEAN : Freeze(d, f)
    \/ RevokeToken(d) \/ RegenerateToken(d)

ByRequest(r, d) ==
    /\ MayAdminister(r) /\ Change
    /\ \/ \E x \in Role : CreateDonor(d, x)
       \/ Administers(d)
    /\ pc' = [pc EXCEPT ![r] = "idle"] /\ actor' = [actor EXCEPT ![r] = None]
    /\ rank' = [rank EXCEPT ![r] = USER]
    /\ UNCHANGED <<browser, console>>

-----------------------------------------------------------------------------
(* The wallet page of a browser                                            *)

\* The server sets the cookie and sends the browser to the wallet, which asks for
\* the donor: GET /auth/magic, or POST /auth/session with what was pasted.
Holder(t) == {d \in Donor : Valid(d, t)}
Asks(t) == page' = "loading" /\ answer' \in (IF Holder(t) = {} THEN {None} ELSE Holder(t))

FollowLink(t) ==
    /\ page \in {"away", "login"}
    /\ IF Holder(t) = {} THEN page' = "login" /\ UNCHANGED <<cookie, answer>>
       ELSE cookie' = t /\ Asks(t)
    /\ UNCHANGED <<accounts, changes, requests, marker, console>>

PasteLink(t) ==
    /\ page = "login" /\ Holder(t) # {}
    /\ cookie' = t /\ marker' = TRUE /\ Asks(t)
    /\ UNCHANGED <<accounts, changes, requests, console>>

OpenWallet ==
    /\ page = "away" /\ Asks(cookie)
    /\ UNCHANGED <<accounts, changes, requests, cookie, marker, console>>

LeaveWallet ==
    /\ page \in {"login", "wallet"} /\ page' = "away"
    /\ UNCHANGED <<accounts, changes, requests, cookie, marker, answer, console>>

\* A pledge that is fulfilled takes a browser with the mark to its wallet, and no
\* other: a payment is no sign-in.
PledgeFulfilled ==
    /\ page = "away" /\ marker /\ Asks(cookie)
    /\ UNCHANGED <<accounts, changes, requests, cookie, marker, console>>

\* The answer, or none: the mark follows it.
Loaded ==
    /\ page = "loading"
    /\ \E d \in {answer, None} :
           /\ page' = IF d = None THEN "login" ELSE "wallet"
           /\ marker' = (d # None)
    /\ answer' = None
    /\ UNCHANGED <<accounts, changes, requests, cookie, console>>

\* endSession takes the mark away even when the server has not been reached.
Logout ==
    /\ marker /\ marker' = FALSE /\ page' = "away" /\ answer' = None
    /\ cookie' \in {0, cookie}
    /\ UNCHANGED <<accounts, changes, requests, console>>

-----------------------------------------------------------------------------
(* The donors page of staff                                                *)

\* Mutant: the old wallet stays until the new one arrives.
Cleared_Not == panel
Cleared == None

\* openWallet shows nothing until the wallet arrives.
Open(d) ==
    /\ selected' = d /\ panel' = Cleared
    /\ overlapped' = (opening # {}) /\ opening' = opening \cup {d}

SelectDonor(d) ==
    /\ d \in donors /\ Open(d)
    /\ UNCHANGED <<accounts, changes, requests, browser, acting>>

\* The wallet, or an error that leaves the panel as it is.
WalletArrives(d) ==
    /\ d \in opening /\ opening' = opening \ {d} /\ panel' \in {d, panel}
    /\ UNCHANGED <<accounts, changes, requests, browser, selected, acting, overlapped>>

CloseWallet ==
    /\ selected # None /\ selected' = None /\ panel' = None /\ overlapped' = FALSE
    /\ UNCHANGED <<accounts, changes, requests, browser, opening, acting>>

\* The buttons act on the donor that is selected; freezing inverts what the panel
\* shows, which may be old.  Adjusting a balance and reversing a spend (module
\* Wallet) change nothing here.
PressButton ==
    /\ panel # None /\ selected # None /\ acting = None /\ Change
    /\ Administers(selected) \/ UNCHANGED accounts
    /\ acting' = selected
    /\ UNCHANGED <<requests, browser, selected, panel, opening, overlapped>>

\* Then the donor of the click is opened again, unless the call has failed.
ButtonDone ==
    /\ acting # None /\ acting' = None
    /\ Open(acting) \/ UNCHANGED <<selected, panel, opening, overlapped>>
    /\ UNCHANGED <<accounts, changes, requests, browser>>

AddDonor(d) ==
    /\ acting = None /\ Change
    /\ \E x \in Role : CreateDonor(d, x)
    /\ acting' = d
    /\ UNCHANGED <<requests, browser, selected, panel, opening, overlapped>>

-----------------------------------------------------------------------------
Next ==
    \/ \E d \in Donor :
           \/ Donate(d) \/ Expire(d) \/ SelectDonor(d) \/ AddDonor(d) \/ WalletArrives(d)
           \/ \E p \in {"google", "twitch"}, flag \in BOOLEAN : SignIn(d, p, flag)
           \/ \E r \in Request :
                  \/ AskLink(r, d) \/ ByRequest(r, d)
                  \/ \E t \in 1..issued : Authenticate(r, d, t)
    \/ \E r \in Request : SendLink(r) \/ Serve(r)
    \/ \E t \in 1..issued : FollowLink(t) \/ PasteLink(t)
    \/ OpenWallet \/ LeaveWallet \/ PledgeFulfilled \/ Loaded \/ Logout
    \/ CloseWallet \/ PressButton \/ ButtonDone

Spec == Init /\ [][Next]_vars

-----------------------------------------------------------------------------
(* Properties                                                              *)

\* What staff revoke, or a newer link replaces, never lets anybody in again, though
\* donations extend the life of tokens: "revocation still works exactly as before
\* (rotate/null `Donor.magic_token`)" (lib/session.ts), however link requests,
\* sign-ins, donations and staff overlap.
DeadTokensStayDead == \A t \in dead : Holder(t) = {}

\* A request acts with a role that staff gave its donor, or that the allowlists
\* give an email that Google or Discord has vouched for: paying, or signing in with
\* Twitch, with the email of another never does (lib/roles.ts).
ActsAsGranted ==
    \A r \in Request : pc[r] = "in" =>
        \/ rank[r] <= granted[actor[r]]
        \/ actor[r] \in proved /\ rank[r] <= Allowed[actor[r]]

\* The panel shows the donor its buttons act on, unless a second donor was opened
\* before the wallet of the first had arrived.
PanelShowsSelected == panel # None /\ selected # None /\ ~overlapped => panel = selected
=============================================================================
