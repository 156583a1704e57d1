---------------------------- MODULE Access_proofs ----------------------------
(***************************************************************************)
(* Proofs about who may do what, and about what staff do.  The first part  *)
(* is about Access, for every set of donors and requests, every allowlist  *)
(* and every bound.  The second is about StaffPage over Incentives, for    *)
(* every set of pages, requests and images, every table and every bound;   *)
(* it reduces the routes and the handlers of pages to a few kinds of step  *)
(* and proves one invariant, StaffInv, of each.                            *)
(***************************************************************************)
EXTENDS Access, StaffPage, TLAPS

\* The two halves of TypeOK: the Donor rows, and what requests and pages hold.
AccountTypes ==
    /\ donors \subseteq Donor /\ token \in [Donor -> Token]
    /\ expired \subseteq Donor /\ frozen \subseteq Donor
    /\ role \in [Donor -> Role] /\ verified \subseteq Donor
    /\ issued \in Token
    /\ dead \subseteq Token /\ granted \in [Donor -> Role] /\ proved \subseteq Donor

PageTypes ==
    /\ changes \in 0..MaxStaff
    /\ pc \in [Request -> {"idle", "asked", "in"}]
    /\ actor \in [Request -> Donor \cup {None}] /\ rank \in [Request -> Role]
    /\ cookie \in Token /\ marker \in BOOLEAN
    /\ page \in {"away", "loading", "login", "wallet"} /\ answer \in Donor \cup {None}
    /\ selected \in Donor \cup {None} /\ panel \in Donor \cup {None}
    /\ opening \subseteq Donor /\ acting \in Donor \cup {None} /\ overlapped \in BOOLEAN

LEMMA TypeParts == TypeOK <=> AccountTypes /\ PageTypes
  BY DEF TypeOK, AccountTypes, PageTypes

LEMMA TypePartsNext == TypeOK' <=> AccountTypes' /\ PageTypes'
  BY DEF TypeOK, AccountTypes, PageTypes

\* A request that is under way is one of a donor with a row.
RequestInv == \A r \in Request : pc[r] # "idle" => actor[r] \in donors

-----------------------------------------------------------------------------
(* What the steps do to the rows                                           *)

LEMMA RotateTypes ==
    ASSUME AccountTypes, NEW d \in Donor, NEW t \in {0, Fresh}, t <= MaxTokens, Rotate(d, t)
    PROVE  /\ token' \in [Donor -> Token] /\ dead' \subseteq Token
           /\ expired' \subseteq Donor /\ issued' \in Token
<1> USE ConstantsAssumption
<1>1. t \in Token
  BY DEF Token, Fresh, AccountTypes
<1>2. token' \in [Donor -> Token]
  BY <1>1 DEF Rotate, AccountTypes
<1>3. dead' \subseteq Token
  BY DEF Rotate, AccountTypes
<1>4. expired' \subseteq Donor /\ issued' \in Token
  BY <1>1 DEF Rotate, AccountTypes
<1> QED
  BY <1>2, <1>3, <1>4

LEMMA CreateDonorTypes ==
    ASSUME AccountTypes, NEW d \in Donor, NEW x \in Role, CreateDonor(d, x)
    PROVE  AccountTypes'
  BY DEF AccountTypes, CreateDonor

LEMMA AdministersTypes ==
    ASSUME AccountTypes, NEW d \in Donor, Administers(d)
    PROVE  AccountTypes'
<1> USE ConstantsAssumption
<1>1. CASE \E x \in Role : SetRole(d, x)
  BY <1>1 DEF AccountTypes, SetRole
<1>2. CASE \E f \in BOOLEAN : Freeze(d, f)
  BY <1>2 DEF AccountTypes, Freeze
<1>3. CASE RevokeToken(d)
  BY <1>3, RotateTypes DEF AccountTypes, RevokeToken
<1>4. CASE RegenerateToken(d)
  BY <1>4, RotateTypes DEF AccountTypes, RegenerateToken
<1> QED
  BY <1>1, <1>2, <1>3, <1>4 DEF Administers

\* Steps of Next that write Donor rows, and all others.
RowStep ==
    \/ \E d \in Donor :
           \/ Donate(d) \/ Expire(d) \/ AddDonor(d)
           \/ \E p \in {"google", "twitch"}, flag \in BOOLEAN : SignIn(d, p, flag)
           \/ \E r \in Request : ByRequest(r, d)
    \/ \E r \in Request : SendLink(r)
    \/ PressButton

LEMMA RowSteps ==
    ASSUME [Next]_vars
    PROVE  RowStep \/ UNCHANGED accounts
  BY DEF Next, RowStep, vars, AskLink, Authenticate, Serve, FollowLink, PasteLink,
         OpenWallet, LeaveWallet, PledgeFulfilled, Loaded, Logout, SelectDonor,
         WalletArrives, CloseWallet, ButtonDone

LEMMA AccountTypesStep ==
    ASSUME TypeOK, RequestInv, [Next]_vars
    PROVE  AccountTypes'
<1> USE ConstantsAssumption
<1>0. AccountTypes
  BY TypeParts
<1>1. ASSUME NEW d \in Donor, Donate(d) PROVE AccountTypes'
  <2>1. CASE d \in donors
    BY <1>0, <1>1, <2>1 DEF Donate, AccountTypes
  <2>2. CASE d \notin donors
    <3>1. Rotate(d, Fresh) /\ Fresh <= MaxTokens /\ donors' = donors \cup {d}
      BY <1>1, <2>2 DEF Donate
    <3> QED
      BY <1>0, <1>1, <3>1, RotateTypes DEF Donate, AccountTypes
  <2> QED
    BY <2>1, <2>2
<1>2. ASSUME NEW d \in Donor, Expire(d) PROVE AccountTypes'
  BY <1>0, <1>2 DEF Expire, AccountTypes
<1>3. ASSUME NEW d \in Donor, AddDonor(d) PROVE AccountTypes'
  BY <1>0, <1>3, CreateDonorTypes DEF AddDonor
<1>4. ASSUME NEW d \in Donor, NEW p, NEW flag, SignIn(d, p, flag) PROVE AccountTypes'
  <2>1. Rotate(d, Fresh) /\ Fresh <= MaxTokens
    BY <1>4 DEF SignIn
  <2>2. verified' \subseteq Donor /\ proved' \subseteq Donor /\ donors' \subseteq Donor
    BY <1>0, <1>4 DEF SignIn, AccountTypes
  <2> QED
    BY <1>0, <1>4, <2>1, <2>2, RotateTypes DEF SignIn, AccountTypes
<1>5. ASSUME NEW d \in Donor, NEW r \in Request, ByRequest(r, d) PROVE AccountTypes'
  BY <1>0, <1>5, CreateDonorTypes, AdministersTypes DEF ByRequest
<1>6. ASSUME NEW r \in Request, SendLink(r) PROVE AccountTypes'
  <2>1. actor[r] \in Donor
    BY <1>0, <1>6 DEF SendLink, RequestInv, AccountTypes
  <2>2. Rotate(actor[r], Fresh) /\ Fresh <= MaxTokens
    BY <1>6 DEF SendLink
  <2> QED
    BY <1>0, <1>6, <2>1, <2>2, RotateTypes DEF SendLink, AccountTypes
<1>7. CASE PressButton
  <2>1. selected \in Donor
    BY <1>7 DEF PressButton, TypeOK
  <2>2. Administers(selected) \/ UNCHANGED accounts
    BY <1>7 DEF PressButton
  <2> QED
    BY <1>0, <2>1, <2>2, AdministersTypes DEF accounts, AccountTypes
<1>8. CASE UNCHANGED accounts
  BY <1>0, <1>8 DEF accounts, AccountTypes
<1> QED
  BY <1>1, <1>2, <1>3, <1>4, <1>5, <1>6, <1>7, <1>8, RowSteps DEF RowStep

LEMMA AsksTypes ==
    ASSUME NEW t, Asks(t)
    PROVE  page' = "loading" /\ answer' \in Donor \cup {None}
  BY DEF Asks, Holder

LEMMA PageTypesStep ==
    ASSUME TypeOK, RequestInv, [Next]_vars
    PROVE  PageTypes'
<1> USE ConstantsAssumption
<1>0. PageTypes /\ AccountTypes
  BY TypeParts
<1> DEFINE Requests == /\ pc' \in [Request -> {"idle", "asked", "in"}]
                       /\ actor' \in [Request -> Donor \cup {None}]
                       /\ rank' \in [Request -> Role]
<1> DEFINE Browser == /\ cookie' \in Token /\ marker' \in BOOLEAN
                      /\ page' \in {"away", "loading", "login", "wallet"}
                      /\ answer' \in Donor \cup {None}
<1> DEFINE Console == /\ selected' \in Donor \cup {None} /\ panel' \in Donor \cup {None}
                      /\ opening' \subseteq Donor /\ acting' \in Donor \cup {None}
                      /\ overlapped' \in BOOLEAN
<1>a. UNCHANGED requests => Requests
  BY <1>0 DEF requests, PageTypes
<1>b. UNCHANGED browser => Browser
  BY <1>0 DEF browser, PageTypes
<1>c. UNCHANGED console => Console
  BY <1>0 DEF console, PageTypes
<1>d. UNCHANGED changes \/ Change => changes' \in 0..MaxStaff
  BY <1>0 DEF Change, PageTypes
<1>1. Requests
  <2> HIDE DEF Requests
  <2>1. UNCHANGED requests \/ \E r \in Request : \/ SendLink(r) \/ Serve(r)
            \/ \E d \in Donor : \/ AskLink(r, d) \/ ByRequest(r, d)
                                \/ \E t \in 1..issued : Authenticate(r, d, t)
    BY DEF Next, vars, Donate, Expire, SelectDonor, AddDonor, WalletArrives, SignIn,
           FollowLink, PasteLink, OpenWallet, LeaveWallet, PledgeFulfilled, Loaded,
           Logout, CloseWallet, PressButton, ButtonDone
  <2> USE DEF Requests
  <2>2. ASSUME NEW r \in Request, SendLink(r) PROVE Requests
    BY <1>0, <2>2 DEF SendLink, PageTypes
  <2>3. ASSUME NEW r \in Request, Serve(r) PROVE Requests
    BY <1>0, <2>3 DEF Serve, PageTypes, Role, USER
  <2>4. ASSUME NEW r \in Request, NEW d \in Donor, AskLink(r, d) PROVE Requests
    BY <1>0, <2>4 DEF AskLink, PageTypes
  <2>5. ASSUME NEW r \in Request, NEW d \in Donor, ByRequest(r, d) PROVE Requests
    BY <1>0, <2>5 DEF ByRequest, PageTypes, Role, USER
  <2>6. ASSUME NEW r \in Request, NEW d \in Donor, NEW t, Authenticate(r, d, t)
        PROVE  Requests
    BY <1>0, <2>6 DEF Authenticate, EffectiveRole, PageTypes, AccountTypes
  <2> HIDE DEF Requests
  <2> QED
    BY <1>a, <2>1, <2>2, <2>3, <2>4, <2>5, <2>6
<1>2. Browser
  <2> HIDE DEF Browser
  <2>1. \/ UNCHANGED browser \/ OpenWallet \/ LeaveWallet \/ PledgeFulfilled \/ Loaded \/ Logout
        \/ \E t \in 1..issued : FollowLink(t) \/ PasteLink(t)
        \/ \E d \in Donor, p \in {"google", "twitch"}, flag \in BOOLEAN : SignIn(d, p, flag)
    BY DEF Next, vars, Donate, Expire, SelectDonor, AddDonor, WalletArrives, AskLink,
           ByRequest, Authenticate, SendLink, Serve, CloseWallet, PressButton, ButtonDone
  <2> USE DEF Browser
  <2>2. CASE OpenWallet
    BY <1>0, <2>2, AsksTypes DEF OpenWallet, PageTypes
  <2>3. CASE LeaveWallet
    BY <1>0, <2>3 DEF LeaveWallet, PageTypes
  <2>4. CASE PledgeFulfilled
    BY <1>0, <2>4, AsksTypes DEF PledgeFulfilled, PageTypes
  <2>5. CASE Loaded
    BY <1>0, <2>5 DEF Loaded, PageTypes
  <2>6. CASE Logout
    <3>1. 0 \in Token
      BY DEF Token
    <3>2. cookie' \in Token
      BY <1>0, <2>6, <3>1 DEF Logout, PageTypes
    <3>3. marker' = FALSE /\ page' = "away" /\ answer' = None
      BY <2>6 DEF Logout
    <3> QED
      BY <3>2, <3>3
  <2>7. ASSUME NEW t \in 1..issued, FollowLink(t) PROVE Browser
    <3>1. t \in Token
      BY <1>0 DEF AccountTypes, Token
    <3> QED
      BY <1>0, <2>7, <3>1, AsksTypes DEF FollowLink, PageTypes
  <2>8. ASSUME NEW t \in 1..issued, PasteLink(t) PROVE Browser
    <3>1. t \in Token
      BY <1>0 DEF AccountTypes, Token
    <3> QED
      BY <1>0, <2>8, <3>1, AsksTypes DEF PasteLink, PageTypes
  <2>9. ASSUME NEW d \in Donor, NEW p, NEW flag, SignIn(d, p, flag) PROVE Browser
    <3>1. Fresh \in Token
      BY <1>0, <2>9 DEF SignIn, Fresh, AccountTypes, Token
    <3> QED
      BY <1>0, <2>9, <3>1 DEF SignIn, PageTypes
  <2> HIDE DEF Browser
  <2> QED
    BY <1>b, <2>1, <2>2, <2>3, <2>4, <2>5, <2>6, <2>7, <2>8, <2>9
<1>3. Console
  <2> HIDE DEF Console
  <2>1. \/ UNCHANGED console \/ CloseWallet \/ PressButton \/ ButtonDone
        \/ \E d \in Donor : SelectDonor(d) \/ WalletArrives(d) \/ AddDonor(d)
    BY DEF Next, vars, Donate, Expire, SignIn, AskLink, ByRequest, Authenticate, SendLink,
           Serve, FollowLink, PasteLink, OpenWallet, LeaveWallet, PledgeFulfilled, Loaded,
           Logout
  <2> USE DEF Console
  <2>2. CASE CloseWallet
    BY <1>0, <2>2 DEF CloseWallet, PageTypes
  <2>3. CASE PressButton
    BY <1>0, <2>3 DEF PressButton, PageTypes
  <2>4. CASE ButtonDone
    BY <1>0, <2>4 DEF ButtonDone, Open, Cleared, PageTypes
  <2>5. ASSUME NEW d \in Donor, SelectDonor(d) PROVE Console
    BY <1>0, <2>5 DEF SelectDonor, Open, Cleared, PageTypes
  <2>6. ASSUME NEW d \in Donor, WalletArrives(d) PROVE Console
    BY <1>0, <2>6 DEF WalletArrives, PageTypes
  <2>7. ASSUME NEW d \in Donor, AddDonor(d) PROVE Console
    BY <1>0, <2>7 DEF AddDonor, PageTypes
  <2> HIDE DEF Console
  <2> QED
    BY <1>c, <2>1, <2>2, <2>3, <2>4, <2>5, <2>6, <2>7
<1>4. UNCHANGED changes \/ Change
  BY DEF Next, vars, Donate, Expire, SelectDonor, AddDonor, WalletArrives, SignIn, AskLink,
         ByRequest, Authenticate, SendLink, Serve, FollowLink, PasteLink, OpenWallet,
         LeaveWallet, PledgeFulfilled, Loaded, Logout, CloseWallet, PressButton, ButtonDone
<1> QED
  BY <1>1, <1>2, <1>3, <1>4, <1>d DEF PageTypes

LEMMA RequestStep ==
    ASSUME TypeOK, RequestInv, [Next]_vars
    PROVE  RequestInv'
<1>1. donors \subseteq donors'
  BY RowSteps DEF RowStep, accounts, Donate, Expire, AddDonor, CreateDonor, SignIn, ByRequest,
     SendLink, PressButton, Administers, SetRole, Freeze, RevokeToken, RegenerateToken
<1>2. ASSUME NEW q \in Request, pc'[q] # "idle"
      PROVE  actor'[q] \in donors \/ (pc[q] # "idle" /\ actor'[q] = actor[q])
  <2>1. UNCHANGED requests \/ \E r \in Request : \/ SendLink(r) \/ Serve(r)
            \/ \E d \in Donor : \/ AskLink(r, d) \/ ByRequest(r, d)
                                \/ \E t \in 1..issued : Authenticate(r, d, t)
    BY DEF Next, vars, Donate, Expire, SelectDonor, AddDonor, WalletArrives, SignIn,
           FollowLink, PasteLink, OpenWallet, LeaveWallet, PledgeFulfilled, Loaded,
           Logout, CloseWallet, PressButton, ButtonDone
  <2>2. CASE UNCHANGED requests
    BY <1>2, <2>2 DEF requests
  <2>3. ASSUME NEW r \in Request,
               SendLink(r) \/ Serve(r) \/ \E d \in Donor : ByRequest(r, d)
        PROVE  pc[q] # "idle" /\ actor'[q] = actor[q]
    BY <1>2, <2>3 DEF SendLink, Serve, ByRequest, TypeOK
  <2>4. ASSUME NEW r \in Request, NEW d \in Donor,
               AskLink(r, d) \/ \E t \in 1..issued : Authenticate(r, d, t)
        PROVE  actor'[q] \in donors \/ (pc[q] # "idle" /\ actor'[q] = actor[q])
    BY <1>2, <2>4 DEF AskLink, Authenticate, Valid, TypeOK
  <2> QED
    BY <2>1, <2>2, <2>3, <2>4
<1> QED
  BY <1>1, <1>2 DEF RequestInv

\* Access keeps the types of its variables, and a request under way belongs to a row.
THEOREM TypeCorrect == Spec => [](TypeOK /\ RequestInv)
<1>1. ASSUME Init PROVE TypeOK /\ RequestInv
  <2>1. 0 \in Token /\ USER \in Role /\ 0 \in 0..MaxStaff
    BY ConstantsAssumption DEF Token, Role, USER
  <2>2. AccountTypes
    BY <1>1, <2>1 DEF Init, AccountTypes
  <2>3. PageTypes
    BY <1>1, <2>1 DEF Init, PageTypes
  <2>4. RequestInv
    BY <1>1 DEF Init, RequestInv
  <2> QED
    BY <2>2, <2>3, <2>4, TypeParts
<1>2. TypeOK /\ RequestInv /\ [Next]_vars => (TypeOK /\ RequestInv)'
  BY AccountTypesStep, PageTypesStep, RequestStep, TypePartsNext
<1> QED
  BY <1>1, <1>2, PTL DEF Spec

-----------------------------------------------------------------------------
(* Revoked and replaced tokens                                             *)

\* No two donors have one token, the tokens of rows are the newest that were made
\* for them, and what has ended is in no row.
TokenInv ==
    /\ \A d \in Donor : token[d] \in 0..issued /\ token[d] \notin dead
    /\ \A d, e \in Donor : token[d] = token[e] /\ token[d] # 0 => d = e
    /\ dead \subseteq 1..issued

\* A step makes, replaces or takes away at most one token.
Rotated ==
    \/ UNCHANGED <<token, issued, dead>>
    \/ \E d \in Donor, t \in {0, Fresh} : Rotate(d, t)

LEMMA TokenSteps ==
    ASSUME TypeOK, RequestInv, [Next]_vars
    PROVE  Rotated
<1>1. ASSUME NEW d \in Donor, Administers(d) PROVE Rotated
  BY <1>1 DEF Administers, SetRole, Freeze, RevokeToken, RegenerateToken, Rotated
<1>2. ASSUME NEW d \in Donor, NEW x, CreateDonor(d, x) PROVE Rotated
  BY <1>2 DEF CreateDonor, Rotated
<1>3. ASSUME NEW d \in Donor, Donate(d) \/ Expire(d) PROVE Rotated
  BY <1>3 DEF Donate, Expire, Rotated
<1>4. ASSUME NEW d \in Donor, NEW p, NEW flag, SignIn(d, p, flag) PROVE Rotated
  BY <1>4 DEF SignIn, Rotated
<1>5. ASSUME NEW r \in Request, SendLink(r) PROVE Rotated
  <2>1. actor[r] \in Donor
    BY <1>5 DEF SendLink, RequestInv, TypeOK
  <2> QED
    BY <1>5, <2>1 DEF SendLink, Rotated
<1>6. CASE PressButton
  <2>1. selected \in Donor
    BY <1>6 DEF PressButton, TypeOK
  <2> QED
    BY <1>1, <1>6, <2>1 DEF PressButton, accounts, Rotated
<1>7. CASE UNCHANGED accounts
  BY <1>7 DEF accounts, Rotated
<1>8. ASSUME NEW d \in Donor, AddDonor(d) PROVE Rotated
  BY <1>2, <1>8 DEF AddDonor
<1>9. ASSUME NEW d \in Donor, NEW r \in Request, ByRequest(r, d) PROVE Rotated
  BY <1>1, <1>2, <1>9 DEF ByRequest
<1> QED
  BY <1>3, <1>4, <1>5, <1>6, <1>7, <1>8, <1>9, RowSteps DEF RowStep

LEMMA TokenInvStep ==
    ASSUME TypeOK, RequestInv, TokenInv, [Next]_vars
    PROVE  TokenInv'
<1>1. CASE UNCHANGED <<token, issued, dead>>
  BY <1>1 DEF TokenInv
<1>2. ASSUME NEW d \in Donor, NEW t \in {0, Fresh}, Rotate(d, t) PROVE TokenInv'
  <2>1. issued \in Nat /\ token \in [Donor -> Nat]
    BY ConstantsAssumption DEF TypeOK, Token
  <2>2. /\ token' = [token EXCEPT ![d] = t] /\ dead' = dead \cup ({token[d]} \ {0, t})
        /\ issued' = IF t > issued THEN t ELSE issued
    BY <1>2 DEF Rotate
  <2>3. issued' \in Nat /\ issued <= issued' /\ t \in 0..issued'
    BY <2>1, <2>2 DEF Fresh
  <2>4. t = 0 \/ \A e \in Donor : token[e] # t
    BY <2>1 DEF Fresh, TokenInv
  <2>5. t \notin dead
    BY <2>1 DEF Fresh, TokenInv
  <2>6. ASSUME NEW e \in Donor PROVE token'[e] \in 0..issued' /\ token'[e] \notin dead'
    <3>1. CASE e = d
      BY <2>1, <2>2, <2>3, <2>5, <3>1
    <3>2. CASE e # d
      <4>1. token'[e] = token[e] /\ token[e] \in 0..issued /\ token[e] \notin dead
        BY <2>1, <2>2, <3>2 DEF TokenInv
      <4>2. token[e] # 0 => token[e] # token[d]
        BY <3>2 DEF TokenInv
      <4> QED
        BY <2>1, <2>2, <2>3, <4>1, <4>2
    <3> QED
      BY <3>1, <3>2
  <2>7. ASSUME NEW e \in Donor, NEW f \in Donor, token'[e] = token'[f], token'[e] # 0
        PROVE  e = f
    BY <2>1, <2>2, <2>4, <2>7 DEF TokenInv
  <2>8. dead' \subseteq 1..issued'
    <3>1. dead \subseteq 1..issued /\ token[d] \in 0..issued
      BY DEF TokenInv
    <3>2. 1..issued \subseteq 1..issued'
      BY <2>1, <2>3
    <3>3. {token[d]} \ {0, t} \subseteq 1..issued
      BY <2>1, <3>1
    <3> QED
      BY <2>2, <3>1, <3>2, <3>3
  <2> QED
    BY <2>6, <2>7, <2>8 DEF TokenInv
<1> QED
  BY <1>1, <1>2, TokenSteps DEF Rotated

\* What staff revoke, or a newer link replaces, never lets anybody in again
\* (lib/session.ts, services/auth.ts), however many links, sign-ins and donations.
THEOREM Revoked == Spec => []DeadTokensStayDead
<1>1. Init => TokenInv
  BY DEF Init, TokenInv
<1>2. TypeOK /\ RequestInv /\ TokenInv /\ [Next]_vars => TokenInv'
  BY TokenInvStep
<1>3. TokenInv => DeadTokensStayDead
  BY DEF TokenInv, DeadTokensStayDead, Holder, Valid
<1> QED
  BY <1>1, <1>2, <1>3, TypeCorrect, PTL DEF Spec

-----------------------------------------------------------------------------
(* Roles                                                                   *)

\* Rows hold what staff gave and what a provider vouched for.
GrantInv ==
    /\ \A d \in Donor : role[d] <= granted[d]
    /\ verified \subseteq proved
    /\ ActsAsGranted

LEMMA GrantStep ==
    ASSUME TypeOK, RequestInv, GrantInv, [Next]_vars
    PROVE  GrantInv'
<1> USE DEF Role
<1> DEFINE Kept ==
        /\ \A d \in Donor : role'[d] <= granted'[d]
        /\ \A d \in donors : granted[d] <= granted'[d]
        /\ proved \subseteq proved' /\ verified' \subseteq proved'
<1>0. role \in [Donor -> 0..2] /\ granted \in [Donor -> 0..2] /\ donors \subseteq Donor
  BY DEF TypeOK
<1>1. ASSUME UNCHANGED <<role, granted, verified, proved>> PROVE Kept
  BY <1>0, <1>1 DEF GrantInv
<1>2. ASSUME NEW d \in Donor, NEW x \in 0..2, CreateDonor(d, x) PROVE Kept
  BY <1>0, <1>2 DEF GrantInv, CreateDonor
<1>3. ASSUME NEW d \in Donor, NEW x \in 0..2, SetRole(d, x) PROVE Kept
  BY <1>0, <1>3 DEF GrantInv, SetRole
<1>4. ASSUME NEW d \in Donor, NEW p \in {"google", "twitch"}, NEW flag \in BOOLEAN,
             SignIn(d, p, flag)
      PROVE  Kept
  BY <1>0, <1>4 DEF GrantInv, SignIn, Vouches
<1>5. ASSUME NEW d \in Donor, Administers(d) PROVE Kept
  <2>1. \/ UNCHANGED <<role, granted, verified, proved>>
        \/ \E x \in 0..2 : SetRole(d, x)
    BY <1>5 DEF Administers, Freeze, RevokeToken, RegenerateToken
  <2> HIDE DEF Kept
  <2> QED
    BY <2>1, <1>1, <1>3
<1>6. Kept
  <2> HIDE DEF Kept
  <2>1. ASSUME NEW d \in Donor, Donate(d) \/ Expire(d) PROVE Kept
    BY <2>1, <1>1 DEF Donate, Expire
  <2>2. ASSUME NEW d \in Donor, AddDonor(d) PROVE Kept
    BY <2>2, <1>2 DEF AddDonor
  <2>3. ASSUME NEW d \in Donor, NEW r \in Request, ByRequest(r, d) PROVE Kept
    BY <2>3, <1>2, <1>5 DEF ByRequest
  <2>4. ASSUME NEW r \in Request, SendLink(r) PROVE Kept
    BY <2>4, <1>1 DEF SendLink
  <2>5. CASE PressButton
    <3>1. selected \in Donor
      BY <2>5 DEF PressButton, TypeOK
    <3> QED
      BY <2>5, <3>1, <1>1, <1>5 DEF PressButton, accounts
  <2>6. CASE UNCHANGED accounts
    BY <2>6, <1>1 DEF accounts
  <2> QED
    BY <2>1, <2>2, <2>3, <2>4, <2>5, <2>6, <1>4, RowSteps DEF RowStep
<1>7. TypeOK'
  BY AccountTypesStep, PageTypesStep, TypePartsNext
<1>8. ASSUME NEW q \in Request, pc'[q] = "in"
      PROVE  \/ rank'[q] <= granted'[actor'[q]]
             \/ actor'[q] \in proved' /\ rank'[q] <= Allowed[actor'[q]]
  <2>1. UNCHANGED requests \/ \E r \in Request : \/ SendLink(r) \/ Serve(r)
            \/ \E d \in Donor : \/ AskLink(r, d) \/ ByRequest(r, d)
                                \/ \E t \in 1..issued : Authenticate(r, d, t)
    BY DEF Next, vars, Donate, Expire, SelectDonor, AddDonor, WalletArrives, SignIn,
           FollowLink, PasteLink, OpenWallet, LeaveWallet, PledgeFulfilled, Loaded,
           Logout, CloseWallet, PressButton, ButtonDone
  <2>2. ASSUME pc[q] = "in", actor'[q] = actor[q], rank'[q] = rank[q]
        PROVE  \/ rank'[q] <= granted'[actor'[q]]
               \/ actor'[q] \in proved' /\ rank'[q] <= Allowed[actor'[q]]
    <3>1. actor[q] \in donors /\ rank[q] \in 0..2
      BY <2>2 DEF RequestInv, TypeOK
    <3>2. granted[actor[q]] \in 0..2 /\ granted'[actor[q]] \in 0..2
      BY <1>0, <1>7, <3>1 DEF TypeOK
    <3>3. \/ rank[q] <= granted[actor[q]]
          \/ actor[q] \in proved /\ rank[q] <= Allowed[actor[q]]
      BY <2>2 DEF GrantInv, ActsAsGranted
    <3>4. granted[actor[q]] <= granted'[actor[q]] /\ proved \subseteq proved'
      BY <1>6, <3>1
    <3> QED
      BY <2>2, <3>1, <3>2, <3>3, <3>4
  <2>3. CASE UNCHANGED requests
    BY <1>8, <2>2, <2>3 DEF requests
  <2>4. ASSUME NEW r \in Request,
               \/ SendLink(r) \/ Serve(r)
               \/ \E d \in Donor : ByRequest(r, d) \/ AskLink(r, d)
        PROVE  pc[q] = "in" /\ actor'[q] = actor[q] /\ rank'[q] = rank[q]
    BY <1>8, <2>4 DEF SendLink, Serve, ByRequest, AskLink, TypeOK
  <2>5. ASSUME NEW r \in Request, NEW d \in Donor, NEW t, Authenticate(r, d, t)
        PROVE  \/ rank'[q] <= granted'[actor'[q]]
               \/ actor'[q] \in proved' /\ rank'[q] <= Allowed[actor'[q]]
    <3>1. CASE q = r
      <4>1. actor'[q] = d /\ rank'[q] = EffectiveRole(d)
        BY <2>5, <3>1 DEF Authenticate, TypeOK
      <4>2. UNCHANGED <<granted, proved>>
        BY <2>5 DEF Authenticate, accounts
      <4>3. role[d] <= granted[d] /\ verified \subseteq proved
        BY DEF GrantInv
      <4>4. Allowed[d] \in 0..2
        BY ConstantsAssumption
      <4> QED
        BY <1>0, <4>1, <4>2, <4>3, <4>4 DEF EffectiveRole
    <3>2. CASE q # r
      BY <1>8, <2>2, <2>5, <3>2 DEF Authenticate, TypeOK
    <3> QED
      BY <3>1, <3>2
  <2> QED
    BY <2>1, <2>2, <2>3, <2>4, <2>5
<1> QED
  BY <1>6, <1>8 DEF GrantInv, ActsAsGranted

\* A request acts with a role that staff gave, or that the allowlists give to an email
\* a provider has vouched for (lib/roles.ts), for every allowlist.
THEOREM Granted == Spec => []ActsAsGranted
<1>1. Init => GrantInv
  BY DEF Init, GrantInv, ActsAsGranted, USER
<1>2. TypeOK /\ RequestInv /\ GrantInv /\ [Next]_vars => GrantInv'
  BY GrantStep
<1>3. GrantInv => ActsAsGranted
  BY DEF GrantInv
<1> QED
  BY <1>1, <1>2, <1>3, TypeCorrect, PTL DEF Spec

-----------------------------------------------------------------------------
(* The donors page of staff                                                *)

\* Unless two openings overlap, only the wallet of the selected donor can arrive.
PanelInv ==
    selected # None /\ ~overlapped =>
        opening \subseteq {selected} /\ panel \in {None, selected}

LEMMA PanelStep ==
    ASSUME TypeOK, PanelInv, [Next]_vars
    PROVE  PanelInv'
<1>1. \/ UNCHANGED <<selected, panel, opening, overlapped>>
      \/ CloseWallet \/ \E d \in Donor \cup {None} : Open(d)
      \/ \E d \in Donor : WalletArrives(d)
  BY DEF TypeOK, Next, vars, console, Donate, Expire, SelectDonor, AddDonor, SignIn, AskLink,
         ByRequest, Authenticate, SendLink, Serve, FollowLink, PasteLink, OpenWallet,
         LeaveWallet, PledgeFulfilled, Loaded, Logout, PressButton, ButtonDone
<1>2. CASE UNCHANGED <<selected, panel, opening, overlapped>>
  BY <1>2 DEF PanelInv
<1>3. CASE CloseWallet
  BY <1>3 DEF CloseWallet, PanelInv
<1>4. ASSUME NEW d \in Donor \cup {None}, Open(d) PROVE PanelInv'
  BY <1>4 DEF Open, Cleared, PanelInv
<1>5. ASSUME NEW d \in Donor, WalletArrives(d) PROVE PanelInv'
  BY <1>5 DEF WalletArrives, PanelInv
<1> QED
  BY <1>1, <1>2, <1>3, <1>4, <1>5

\* The panel shows the donor its buttons act on, unless two openings overlapped
\* (AdminDonors.tsx), whoever else changes the donors meanwhile.
THEOREM PanelMatches == Spec => []PanelShowsSelected
<1>1. Init => PanelInv
  BY DEF Init, PanelInv
<1>2. TypeOK /\ PanelInv /\ [Next]_vars => PanelInv'
  BY PanelStep
<1>3. PanelInv => PanelShowsSelected
  BY DEF PanelInv, PanelShowsSelected
<1> QED
  BY <1>1, <1>2, <1>3, TypeCorrect, PTL DEF Spec

-----------------------------------------------------------------------------
(* The requests of staff: what a step of a route may do.                   *)

Moves(j, q) == job' = [job EXCEPT ![j] = q]

Refuses(j) ==
    /\ At(j, "sent") \/ At(j, "read") \/ (At(j, "unlinked") /\ row.form = Nothing)
    /\ Moves(j, Idle)
    /\ UNCHANGED <<kind, row, files, told, crossed>>

Reads(j) ==
    /\ \/ job[j].op \in {"put", "delete"} /\ At(j, "sent") /\ row.form # Nothing
       \/ job[j].op = "delete" /\ At(j, "counted")
    /\ Moves(j, [job[j] EXCEPT !.prior = row, !.stage = "read"])
    /\ UNCHANGED <<kind, row, files, told, crossed>>

Counts(j) ==
    /\ At(j, "sent") /\ job[j].op = "delete" /\ Moves(j, [job[j] EXCEPT !.stage = "counted"])
    /\ UNCHANGED <<kind, row, files, told, crossed>>

Unlinks(j) == job[j].op = "put" /\ Unlink(j)

Inserts(j) ==
    /\ job[j].op = "post" /\ Insert(j)
    /\ (TellsCreated(j) /\ UNCHANGED crossed) \/ Unannounced

Replaces(j) ==
    /\ job[j].op = "put"
    /\ \E from \in {"sent", "read", "unlinked"} :
          \/ Replace(j, from, TRUE) /\ TellsChanges(j)
          \/ Replace(j, from, FALSE) /\ TellsNothing

\* The row is written again with the image it has, and what is told fits, or a goal
\* is retired.
Tells(j, form) ==
    \/ UNCHANGED <<told, crossed>> /\ (form = row.form \/ ~Announced)
    \/ /\ form = [row.form EXCEPT !.active = FALSE]
       /\ told' = IF told # Nothing /\ job[j].prior.form.active THEN [told EXCEPT !.active = FALSE]
                  ELSE told
       /\ crossed' = crossed \cup Crosses(j, TRUE)

Rewrites(j) ==
    /\ row.form # Nothing /\ (At(j, "sent") \/ At(j, "read"))
    /\ \E form \in Form : form.image = row.form.image /\ Write(j, form) /\ Tells(j, form)
    /\ UNCHANGED <<kind, files>>

Deletes(j) ==
    /\ row.form # Nothing /\ At(j, "sent") /\ Write(j, Nothing)
    /\ UNCHANGED <<kind, files, told, crossed>>

DeletesRow(j) ==
    /\ job[j].op = "delete" /\ At(j, "read") /\ row.form # Nothing
    /\ row' = [rev |-> row.rev + 1, form |-> Nothing]
    /\ Moves(j, [job[j] EXCEPT !.stage = "deleted", !.wrote = row.rev + 1])
    /\ UNCHANGED <<kind, files, told, crossed>>

Uploads(j) ==
    /\ job[j].op = "upload" /\ At(j, "sent")
    /\ files' = files \cup {job[j].form.image} /\ Moves(j, [job[j] EXCEPT !.stage = "stored"])
    /\ UNCHANGED <<kind, row, told, crossed>>

\* One request takes one of these steps.
Serves(j) ==
    \/ Refuses(j) \/ Reads(j) \/ Counts(j) \/ Unlinks(j) \/ Inserts(j) \/ Replaces(j)
    \/ Rewrites(j) \/ Deletes(j) \/ DeletesRow(j) \/ DeleteImage(j) \/ Uploads(j)

LEMMA RefuseCase == \A j \in Job : (At(j, "sent") \/ At(j, "read")) /\ Refuse(j) => Refuses(j)
  BY DEF Refuse, Refuses, Moves, server

LEMMA GoneCase ==
    \A j \in Job : Gone(j, "sent") \/ Gone(j, "read") \/ Gone(j, "unlinked") => Refuses(j)
  BY DEF Gone, Refuse, Refuses, Moves, server

LEMMA ReadCase == \A j \in Job : job[j].op \in {"put", "delete"} /\ ReadFirst(j) => Reads(j)
  BY DEF ReadFirst, Reads, Moves, server

LEMMA DeleteCase == \A j \in Job : Delete(j) => Refuses(j) \/ Deletes(j)
  BY RefuseCase DEF Delete, Deletes

LEMMA DeleteImageCase ==
    \A j \in Job : job[j].op = "delete" /\ (Count(j) \/ ReadImage(j) \/ DeleteRead(j) \/ DeleteImage(j))
                      => Serves(j)
<1> TAKE j \in Job
<1>1. job[j].op = "delete" /\ Count(j) => Refuses(j) \/ Counts(j)
  BY RefuseCase DEF Count, Counts, Step, Moves, server
<1>2. job[j].op = "delete" /\ ReadImage(j) => Reads(j)
  BY DEF ReadImage, Reads, Moves, server
<1>3. job[j].op = "delete" /\ DeleteRead(j) => Refuses(j) \/ DeletesRow(j)
  BY RefuseCase DEF DeleteRead, DeletesRow, Moves
<1> QED
  BY <1>1, <1>2, <1>3 DEF Serves

\* A row, a form and a job of a reachable state.
LEMMA RowForms ==
    ASSUME RowInv
    PROVE  /\ row.form \in Form \cup {Nothing} /\ row.rev \in Nat
           /\ row.form # Nothing => row.rev > 0
           /\ \A j \in Job : /\ job[j].form \in Form \cup {Nothing}
                             /\ Writing(job[j]) => job[j].form \in Form
           /\ Nothing \notin Form
<1>1. Nothing \notin Form
  BY IncentivesAssumption DEF Form
<1>2. \A j \in Job : JobSound(job[j]) /\ job[j] \in Jobs
  BY DEF RowInv
<1>3. \A j \in Job : job[j].form \in Form \cup {Nothing} /\ (Writing(job[j]) => job[j].form # Nothing)
  BY <1>2 DEF JobSound, Jobs
<1> QED
  BY <1>1, <1>3 DEF RowInv, Rows

LEMMA RewardCases ==
    ASSUME NEW j \in Job,
           \/ CreateReward(j) \/ PutReward(j) \/ DeleteReward(j)
           \/ ModeratorCreateReward(j) \/ ModeratorPutReward(j) \/ ModeratorDeleteReward(j)
    PROVE  Serves(j)
<1> USE DEF Route
<1>1. CASE CreateReward(j) \/ ModeratorCreateReward(j)
  BY <1>1 DEF CreateReward, ModeratorCreateReward, Inserts, Serves
<1>2. CASE PutReward(j)
  BY <1>2, GoneCase, ReadCase DEF PutReward, Unlinks, Replaces, Serves
<1>3. CASE ModeratorPutReward(j)
  BY <1>3, GoneCase, ReadCase DEF ModeratorPutReward, Unlinks, Replaces, Serves
<1>4. CASE DeleteReward(j) \/ ModeratorDeleteReward(j)
  BY <1>4, DeleteImageCase DEF DeleteReward, ModeratorDeleteReward
<1> QED
  BY <1>1, <1>2, <1>3, <1>4

LEMMA PollCases ==
    ASSUME NEW j \in Job,
           \/ CreatePoll(j) \/ PutPoll(j) \/ DeletePoll(j)
           \/ ModeratorCreatePoll(j) \/ ModeratorPutPoll(j) \/ ModeratorDeletePoll(j)
    PROVE  Serves(j)
<1> USE DEF Route
<1>1. CASE CreatePoll(j) \/ ModeratorCreatePoll(j)
  BY <1>1 DEF CreatePoll, ModeratorCreatePoll, Inserts, Serves
<1>2. CASE PutPoll(j)
  BY <1>2, GoneCase, ReadCase DEF PutPoll, Replaces, Serves
<1>3. CASE ModeratorPutPoll(j)
  BY <1>3, GoneCase DEF ModeratorPutPoll, Replaces, Serves
<1>4. CASE DeletePoll(j) \/ ModeratorDeletePoll(j)
  BY <1>4, DeleteCase DEF DeletePoll, ModeratorDeletePoll, Serves
<1> QED
  BY <1>1, <1>2, <1>3, <1>4

\* An option is not announced, and keeps what is not patched.
LEMMA OptionCases ==
    ASSUME RowInv, NEW j \in Job,
           \/ \E admin \in BOOLEAN : AddOption(j, admin) \/ PatchOption(j, admin)
           \/ RemoveOption(j) \/ ModeratorDeleteOption(j)
    PROVE  Serves(j)
<1> USE DEF Route
<1>1. CASE \E admin \in BOOLEAN : AddOption(j, admin)
  BY <1>1 DEF AddOption, Inserts, Serves
<1>2. ASSUME NEW form, row.form # Nothing, At(j, "sent"), kind = "option", form \in Form,
             form.image = row.form.image, Write(j, form), UNCHANGED <<kind, files, told, crossed>>
      PROVE  Serves(j)
  <2>1. ~Announced
    BY <1>2 DEF Announced
  <2> QED
    BY <1>2, <2>1 DEF Rewrites, Tells, Serves
<1>3. ASSUME NEW admin \in BOOLEAN, PatchOption(j, admin) PROVE Serves(j)
  <2>1. CASE Gone(j, "sent")
    BY <2>1, GoneCase DEF Serves
  <2>2. CASE /\ At(j, "sent") /\ row.form # Nothing
             /\ Write(j, [row.form EXCEPT !.value = job[j].form.value])
             /\ UNCHANGED <<kind, spent, files, told, crossed>>
    <3>1. job[j].form \in Form /\ row.form \in Form
      BY <1>3, <2>2, RowForms DEF PatchOption, Writing, At
    <3>2. /\ [row.form EXCEPT !.value = job[j].form.value] \in Form
          /\ [row.form EXCEPT !.value = job[j].form.value].image = row.form.image
      BY <3>1 DEF Form
    <3> QED
      BY <1>2, <1>3, <2>2, <3>2 DEF PatchOption
  <2> QED
    BY <1>3, <2>1, <2>2 DEF PatchOption
<1>4. CASE RemoveOption(j)
  <2>1. CASE Gone(j, "sent")
    BY <2>1, GoneCase DEF Serves
  <2>2. CASE /\ At(j, "sent") /\ row.form # Nothing
             /\ Write(j, [row.form EXCEPT !.active = FALSE])
             /\ UNCHANGED <<kind, spent, files, told, crossed>>
    <3>1. row.form \in Form
      BY <2>2, RowForms
    <3>2. /\ [row.form EXCEPT !.active = FALSE] \in Form
          /\ [row.form EXCEPT !.active = FALSE].image = row.form.image
      BY <3>1 DEF Form
    <3> QED
      BY <1>2, <1>4, <2>2, <3>2 DEF RemoveOption
  <2> QED
    BY <1>4, <2>1, <2>2 DEF RemoveOption
<1>5. CASE ModeratorDeleteOption(j)
  BY <1>5, DeleteCase DEF ModeratorDeleteOption, Serves
<1> QED
  BY <1>1, <1>3, <1>4, <1>5

LEMMA GoalCases ==
    ASSUME RowInv, NEW j \in Job,
           \/ CreateGoal(j) \/ PutGoal(j) \/ RetireGoal(j)
           \/ ModeratorCreateGoal(j) \/ ModeratorPutGoal(j) \/ ModeratorDeleteGoal(j)
    PROVE  Serves(j)
<1> USE DEF Route
<1>1. CASE CreateGoal(j) \/ ModeratorCreateGoal(j)
  BY <1>1 DEF CreateGoal, ModeratorCreateGoal, Inserts, Serves
<1>2. CASE PutGoal(j)
  BY <1>2, GoneCase, ReadCase DEF PutGoal, Replaces, Serves
<1>3. CASE ModeratorPutGoal(j)
  BY <1>3, GoneCase DEF ModeratorPutGoal, Replaces, Serves
<1>4. CASE RetireGoal(j)
  <2>1. CASE ReadFirst(j) \/ Gone(j, "sent") \/ Gone(j, "read")
    BY <1>4, <2>1, GoneCase, ReadCase DEF RetireGoal, Serves
  <2>2. CASE /\ At(j, "read") /\ row.form # Nothing
             /\ Write(j, [row.form EXCEPT !.active = FALSE])
             /\ told' = IF told # Nothing /\ job[j].prior.form.active
                        THEN [told EXCEPT !.active = FALSE] ELSE told
             /\ crossed' = crossed \cup Crosses(j, TRUE)
             /\ UNCHANGED <<kind, spent, files>>
    <3>1. row.form \in Form
      BY <2>2, RowForms
    <3>2. /\ [row.form EXCEPT !.active = FALSE] \in Form
          /\ [row.form EXCEPT !.active = FALSE].image = row.form.image
      BY <3>1 DEF Form
    <3> QED
      BY <2>2, <3>2 DEF Rewrites, Tells, Serves
  <2> QED
    BY <1>4, <2>1, <2>2 DEF RetireGoal
<1>5. CASE ModeratorDeleteGoal(j)
  BY <1>5, DeleteCase DEF ModeratorDeleteGoal, Serves
<1> QED
  BY <1>1, <1>2, <1>3, <1>4, <1>5

LEMMA AuctionCases ==
    ASSUME NEW j \in Job,
           \/ CreateAuction(j) \/ PutAuction(j) \/ DeleteAuction(j)
           \/ ModeratorCreateAuction(j) \/ ModeratorPutAuction(j)
    PROVE  Serves(j)
<1> USE DEF Route
<1>1. CASE CreateAuction(j) \/ ModeratorCreateAuction(j)
  BY <1>1 DEF CreateAuction, ModeratorCreateAuction, Inserts, Serves
<1>2. CASE PutAuction(j) \/ ModeratorPutAuction(j)
  BY <1>2, GoneCase, ReadCase DEF PutAuction, ModeratorPutAuction, Unlinks, Replaces, Serves
<1>3. CASE DeleteAuction(j)
  BY <1>3, DeleteImageCase DEF DeleteAuction
<1> QED
  BY <1>1, <1>2, <1>3

\* What every other route does to its row.
LEMMA OtherCases ==
    ASSUME RowInv, NEW j \in Job,
           \/ Refund(j) \/ CreateFlag(j) \/ PatchFlag(j) \/ DeleteFlag(j) \/ OtherRoute(j)
           \/ Upload(j)
    PROVE  Serves(j)
<1> USE DEF Route
<1>1. ASSUME row.form # Nothing, At(j, "sent"), Write(j, row.form),
             UNCHANGED <<kind, files, told, crossed>>
      PROVE  Serves(j)
  <2>1. row.form \in Form
    BY <1>1, RowForms
  <2> QED
    BY <1>1, <2>1 DEF Rewrites, Tells, Serves
<1>2. CASE Refund(j)
  BY <1>1, <1>2, RefuseCase DEF Refund, Serves
<1>3. CASE CreateFlag(j)
  BY <1>3, RefuseCase DEF CreateFlag, Inserts, Serves
<1>4. CASE PatchFlag(j)
  BY <1>4, GoneCase DEF PatchFlag, Replaces, Serves
<1>5. CASE DeleteFlag(j)
  BY <1>5, DeleteCase DEF DeleteFlag, Serves
<1>6. CASE OtherRoute(j)
  BY <1>1, <1>6, RefuseCase, DeleteCase DEF OtherRoute, Inserts, Replaces, Serves
<1>7. CASE Upload(j)
  BY <1>7, RefuseCase DEF Upload, Uploads, Step, Moves, Serves
<1> QED
  BY <1>2, <1>3, <1>4, <1>5, <1>6, <1>7

LEMMA ServeCases ==
    ASSUME RowInv, ServerNext
    PROVE  Spend \/ \E j \in Job : Serves(j)
  BY RewardCases, PollCases, OptionCases, GoalCases, AuctionCases, OtherCases DEF ServerNext

-----------------------------------------------------------------------------
(* The pages: what a step of staff may do.                                 *)

\* What a request starts from: a form is typed over the draft, the list, the row or
\* a new form.
Starts(op, form, base) ==
    \/ form = Nothing /\ op \in {"delete", "refund", "act"} /\ base = shown.rev /\ shown.form # Nothing
    \/ form = row.form /\ op = "delete" /\ base = row.rev /\ row.form # Nothing
    \/ /\ op = "post" /\ base = 0 /\ form \in Form
       /\ form.image = Nothing \/ (dialog = "create" /\ form.image = draft.form.image)
    \/ /\ op = "put" /\ form \in Form
       /\ \/ base = draft.base /\ form.image \in {Nothing, draft.form.image}
          \/ base = shown.rev /\ form.image = Nothing
          \/ base = shown.rev /\ shown.form # Nothing /\ form.image = shown.form.image
          \/ base = row.rev /\ row.form # Nothing /\ form.image \in {Nothing, row.form.image}

\* A new request.
Begins(q, op, form, base) ==
    /\ q.op = op /\ q.form = form /\ q.base = base /\ q.stage = "sent"
    /\ q.prior = Absent /\ q.seen = Absent /\ q.wrote = 0

Sends(j) ==
    /\ At(j, "idle") /\ UNCHANGED <<server, window>>
    /\ \E op \in {"post", "put", "delete", "refund", "act"}, form \in Form \cup {Nothing},
          base \in Nat, q \in Jobs :
          Starts(op, form, base) /\ Begins(q, op, form, base) /\ Moves(j, q)

SendsImage(j) ==
    /\ Pictured /\ At(j, "idle") /\ UNCHANGED <<server, window>>
    /\ \E i \in Image, form \in Form, q \in Jobs :
          Unused(i) /\ form.image = i /\ Begins(q, "upload", form, 0) /\ Moves(j, q)

Edits ==
    /\ UNCHANGED <<server, job, screen, shown>>
    /\ \/ dialog' \in {"none", "create"} /\ draft' = NoDraft
       \/ /\ shown.form # Nothing /\ dialog' = "edit"
          /\ draft' = [form |-> shown.form, base |-> shown.rev]
       \/ dialog' = "label" /\ draft' = draft

Clicks == Edits \/ \E j \in Job : Sends(j) \/ SendsImage(j) \/ ImageStored(j)

\* A type of the page's own forms, and what it shows.
FormsKnown ==
    /\ Nothing \notin Form /\ NewForm \in Form /\ PageInv
    /\ shown \in Rows /\ draft \in [form : Form, base : Nat] /\ row \in Rows

LEMMA FormsAreKnown == RowInv /\ WindowInv /\ PageInv => FormsKnown
  BY IncentivesAssumption DEF RowInv, WindowInv, FormsKnown, Older, Form, NewForm

\* Typing changes one field, and an image only away.
LEMMA TypedForm ==
    ASSUME NEW form \in Form, NEW f \in Typed(form)
    PROVE  f \in Form /\ f.image \in {Nothing, form.image}
<1>1. f \in {form, [form EXCEPT !.image = Nothing], [form EXCEPT !.value = 3 - form.value],
             [form EXCEPT !.active = ~form.active]}
  BY DEF Typed
<1>2. 3 - form.value \in {1, 2}
  BY DEF Form
<1> QED
  BY <1>1, <1>2 DEF Form

LEMMA NewTyped ==
    ASSUME NEW f \in Typed(NewForm)
    PROVE  f \in Form /\ f.image = Nothing
<1>1. NewForm \in Form /\ NewForm.image = Nothing
  BY DEF NewForm, Form
<1> QED
  BY <1>1, TypedForm

LEMMA IdleTyped == Absent \in Rows /\ Idle \in Jobs
<1>1. Absent \in Rows
  BY DEF Absent, Rows
<1> QED
  BY <1>1 DEF Idle, Jobs

LEMMA SendBegins ==
    ASSUME NEW j \in Job, NEW op \in {"post", "put", "delete", "refund", "act", "upload"},
           NEW byPage \in BOOLEAN, NEW admin \in BOOLEAN,
           NEW form \in Form \cup {Nothing}, NEW base \in Nat,
           Send(j, op, byPage, admin, form, base)
    PROVE  /\ At(j, "idle") /\ UNCHANGED server
           /\ \E q \in Jobs : Begins(q, op, form, base) /\ Moves(j, q)
<1>1. PICK q : q = [Idle EXCEPT !.op = op, !.page = byPage, !.admin = admin, !.form = form,
                                !.base = base, !.stage = "sent"]
  OBVIOUS
<1>2. Moves(j, q) /\ At(j, "idle") /\ UNCHANGED server
  BY <1>1 DEF Send, Moves
<1>3. /\ q.op = op /\ q.form = form /\ q.base = base /\ q.stage = "sent"
      /\ q.prior = Absent /\ q.seen = Absent /\ q.wrote = 0
  BY <1>1 DEF Idle
<1>4. q \in Jobs
  BY <1>1, IdleTyped DEF Jobs
<1> QED
  BY <1>2, <1>3, <1>4 DEF Begins

LEMMA SubmitBegins ==
    ASSUME NEW j \in Job, NEW op \in {"post", "put", "delete", "refund", "act", "upload"},
           NEW form \in Form \cup {Nothing}, NEW base \in Nat, Submit(j, op, form, base)
    PROVE  /\ At(j, "idle") /\ UNCHANGED server
           /\ \E q \in Jobs : Begins(q, op, form, base) /\ Moves(j, q)
<1>1. PICK byPage \in BOOLEAN, admin \in BOOLEAN : Send(j, op, byPage, admin, form, base)
  BY DEF Submit, IsAdmin
<1> QED
  BY <1>1, SendBegins

LEMMA SendCase ==
    ASSUME NEW j \in Job, NEW op \in {"post", "put", "delete", "refund", "act"},
           NEW byPage \in BOOLEAN, NEW admin \in BOOLEAN,
           NEW form \in Form \cup {Nothing}, NEW base \in Nat,
           Starts(op, form, base), Send(j, op, byPage, admin, form, base), UNCHANGED window
    PROVE  Sends(j)
<1>1. PICK q \in Jobs : Begins(q, op, form, base) /\ Moves(j, q)
  BY SendBegins
<1>2. At(j, "idle") /\ UNCHANGED server
  BY SendBegins
<1> QED
  BY <1>1, <1>2 DEF Sends

LEMMA SubmitCase ==
    ASSUME NEW j \in Job, NEW op \in {"post", "put", "delete", "refund", "act"},
           NEW form \in Form \cup {Nothing}, NEW base \in Nat,
           Starts(op, form, base), Submit(j, op, form, base), UNCHANGED window
    PROVE  Sends(j)
<1>1. PICK q \in Jobs : Begins(q, op, form, base) /\ Moves(j, q)
  BY SubmitBegins
<1>2. At(j, "idle") /\ UNCHANGED server
  BY SubmitBegins
<1> QED
  BY <1>1, <1>2 DEF Sends

LEMMA OtherStaffCase ==
    ASSUME FormsKnown, NEW j \in Job, OtherStaff(j)
    PROVE  Sends(j)
<1>1. PICK admin \in BOOLEAN, op \in {"put", "delete"}, f \in Typed(row.form) :
          /\ op = "delete" => f = row.form
          /\ Send(j, op, FALSE, admin, f, row.rev)
  BY DEF OtherStaff
<1>2. row.form # Nothing /\ row.form \in Form /\ row.rev \in Nat
  BY DEF OtherStaff, FormsKnown, Rows
<1>3. f \in Form /\ f.image \in {Nothing, row.form.image}
  BY <1>2, TypedForm
<1>4. Starts(op, f, row.rev)
  BY <1>1, <1>2, <1>3 DEF Starts
<1> QED
  BY <1>1, <1>2, <1>3, <1>4, SendCase DEF OtherStaff

LEMMA RemoveCase ==
    ASSUME FormsKnown, NEW j \in Job, Remove(j)
    PROVE  Sends(j)
<1>1. Starts("delete", Nothing, shown.rev) /\ shown.rev \in Nat
  BY DEF Remove, Starts, FormsKnown, Rows
<1> QED
  BY <1>1, SubmitCase DEF Remove

LEMMA ActCase ==
    ASSUME FormsKnown, NEW j \in Job, NEW op \in {"act", "refund"}, Act(j, op)
    PROVE  Sends(j)
<1>1. Starts(op, Nothing, shown.rev) /\ shown.rev \in Nat
  BY DEF Act, Starts, FormsKnown, Rows
<1> QED
  BY <1>1, SubmitCase DEF Act

LEMMA SaveCase ==
    ASSUME FormsKnown, NEW j \in Job, Save(j)
    PROVE  Sends(j)
<1>1. draft.form \in Form /\ draft.base \in Nat
  BY DEF FormsKnown
<1>2. ASSUME dialog = "create", NEW f \in Typed(draft.form), Submit(j, "post", f, 0) PROVE Sends(j)
  <2>1. f \in Form /\ f.image \in {Nothing, draft.form.image}
    BY <1>1, TypedForm
  <2>2. Starts("post", f, 0)
    BY <1>2, <2>1 DEF Starts
  <2> QED
    BY <1>2, <2>1, <2>2, SubmitCase DEF Save
<1>3. ASSUME NEW f \in Typed(draft.form), Submit(j, "put", f, draft.base) PROVE Sends(j)
  <2>1. f \in Form /\ f.image \in {Nothing, draft.form.image}
    BY <1>1, TypedForm
  <2>2. Starts("put", f, draft.base)
    BY <2>1 DEF Starts
  <2> QED
    BY <1>1, <1>3, <2>1, <2>2, SubmitCase DEF Save
<1> QED
  BY <1>2, <1>3 DEF Save

LEMMA LabelCases ==
    ASSUME FormsKnown, NEW j \in Job, AddLabel(j) \/ SaveLabel(j)
    PROVE  Sends(j)
<1>1. ASSUME NEW f \in Typed(NewForm), Submit(j, "post", f, 0), UNCHANGED window PROVE Sends(j)
  <2>1. f \in Form /\ f.image = Nothing
    BY NewTyped
  <2>2. Starts("post", f, 0)
    BY <2>1 DEF Starts
  <2> QED
    BY <1>1, <2>1, <2>2, SubmitCase
<1>2. ASSUME NEW f \in Typed(shown.form), Submit(j, "put", f, shown.rev), shown.form # Nothing,
             UNCHANGED window
      PROVE  Sends(j)
  <2>0. shown.form \in Form /\ shown.rev \in Nat
    BY <1>2 DEF FormsKnown, Rows
  <2>1. f \in Form /\ f.image \in {Nothing, shown.form.image}
    BY <2>0, TypedForm
  <2>2. Starts("put", f, shown.rev)
    BY <1>2, <2>1 DEF Starts
  <2> QED
    BY <1>2, <2>0, <2>1, <2>2, SubmitCase
<1> QED
  BY <1>1, <1>2 DEF AddLabel, SaveLabel

LEMMA ImageForm ==
    ASSUME NEW i \in Image
    PROVE  /\ [NewForm EXCEPT !.image = i] \in Form /\ [NewForm EXCEPT !.image = i].image = i
           /\ Nothing \notin Form
  BY IncentivesAssumption DEF NewForm, Form

LEMMA SendImageCase ==
    ASSUME Pictured, NEW j \in Job, SendImage(j)
    PROVE  SendsImage(j)
<1>1. PICK i \in Image : Unused(i) /\ Submit(j, "upload", [NewForm EXCEPT !.image = i], 0)
  BY DEF SendImage
<1>2. PICK form \in Form : form = [NewForm EXCEPT !.image = i] /\ form.image = i
  BY ImageForm
<1>3. PICK q \in Jobs : Begins(q, "upload", form, 0) /\ Moves(j, q)
  BY <1>1, <1>2, SubmitBegins
<1>4. At(j, "idle") /\ UNCHANGED server
  BY <1>1, <1>2, SubmitBegins
<1> QED
  BY <1>1, <1>2, <1>3, <1>4 DEF SendImage, SendsImage

LEMMA EditCases ==
    ASSUME OpenCreate \/ OpenEdit \/ CloseDialog \/ EditLabel
    PROVE  Edits
  BY DEF OpenCreate, OpenEdit, CloseDialog, EditLabel, Close, Edits

\* Every click of every page is one of these.
LEMMA DialogCases ==
    ASSUME FormsKnown, NEW j \in Job, Dialogs(j)
    PROVE  Edits \/ Sends(j)
  BY EditCases, SaveCase DEF Dialogs

LEMMA PageCases ==
    ASSUME FormsKnown, NEW j \in Job,
           \/ AdminRewards(j) \/ ModeratorRewards(j) \/ AdminPolls(j) \/ ModeratorPolls(j)
           \/ AdminGoals(j) \/ ModeratorGoals(j) \/ AdminAuctions(j) \/ ModeratorAuctions(j)
           \/ EventsManager(j) \/ ChannelsManager(j) \/ AdminDestinations(j)
           \/ AdminDonations(j) \/ ModeratorDonations(j)
    PROVE  Edits \/ Sends(j) \/ SendsImage(j) \/ ImageStored(j)
<1>0. \/ AdminRewards(j) \/ ModeratorRewards(j) \/ AdminAuctions(j) \/ ModeratorAuctions(j)
          => Pictured
  BY DEF AdminRewards, ModeratorRewards, AdminAuctions, ModeratorAuctions, FormsKnown, PageInv,
         Tables, Pictured
<1>1. CASE AdminRewards(j) \/ ModeratorRewards(j)
  BY <1>0, <1>1, EditCases, RemoveCase, SendImageCase, SaveCase DEF AdminRewards, ModeratorRewards
<1>2. CASE AdminPolls(j)
  BY <1>2, EditCases, DialogCases, RemoveCase, LabelCases, ActCase DEF AdminPolls
<1>3. CASE ModeratorPolls(j)
  BY <1>3, EditCases, DialogCases, RemoveCase, LabelCases, ActCase DEF ModeratorPolls
<1>4. CASE AdminGoals(j) \/ ModeratorGoals(j)
  BY <1>4, DialogCases, RemoveCase, ActCase DEF AdminGoals, ModeratorGoals
<1>5. CASE AdminAuctions(j) \/ ModeratorAuctions(j)
  BY <1>0, <1>5, DialogCases, RemoveCase, SendImageCase, ActCase DEF AdminAuctions, ModeratorAuctions
<1>6. CASE EventsManager(j) \/ ChannelsManager(j) \/ AdminDestinations(j)
  BY <1>6, DialogCases, RemoveCase, ActCase DEF EventsManager, ChannelsManager, AdminDestinations
<1>7. CASE AdminDonations(j) \/ ModeratorDonations(j)
  BY <1>7, ActCase DEF AdminDonations, ModeratorDonations
<1> QED
  BY <1>1, <1>2, <1>3, <1>4, <1>5, <1>6, <1>7

LEMMA OtherPageCases ==
    ASSUME FormsKnown, NEW j \in Job,
           AdminFeatureFlags(j) \/ AdminBroadcast(j) \/ AdminBlockedWords(j)
    PROVE  Sends(j)
<1>1. ASSUME Submit(j, "post", NewForm, 0), UNCHANGED window PROVE Sends(j)
  <2>1. NewForm \in Form /\ NewForm.image = Nothing
    BY DEF NewForm, Form
  <2>2. Starts("post", NewForm, 0)
    BY <2>1 DEF Starts
  <2> QED
    BY <1>1, <2>1, <2>2, SubmitCase
<1>2. ASSUME Submit(j, "put", [shown.form EXCEPT !.value = 3 - shown.form.value], shown.rev),
             shown.form # Nothing, UNCHANGED window
      PROVE  Sends(j)
  <2>0. shown.form \in Form /\ shown.rev \in Nat
    BY <1>2 DEF FormsKnown, Rows
  <2>1. PICK f : f = [shown.form EXCEPT !.value = 3 - shown.form.value]
    OBVIOUS
  <2>2. 3 - shown.form.value \in {1, 2}
    BY <2>0 DEF Form
  <2>3. f \in Form /\ f.image = shown.form.image
    BY <2>0, <2>1, <2>2 DEF Form
  <2>4. Starts("put", f, shown.rev)
    BY <1>2, <2>3 DEF Starts
  <2> QED
    BY <1>2, <2>0, <2>1, <2>3, <2>4, SubmitCase
<1>3. ASSUME NEW f \in Typed(NewForm), Submit(j, "put", f, shown.rev), UNCHANGED window
      PROVE  Sends(j)
  <2>1. f \in Form /\ f.image = Nothing
    BY NewTyped
  <2>2. Starts("put", f, shown.rev) /\ shown.rev \in Nat
    BY <2>1 DEF Starts, FormsKnown, Rows
  <2> QED
    BY <1>3, <2>1, <2>2, SubmitCase
<1>4. CASE AdminFeatureFlags(j)
  BY <1>1, <1>2, <1>4, RemoveCase DEF AdminFeatureFlags
<1>5. CASE AdminBroadcast(j)
  BY <1>3, <1>5, RemoveCase DEF AdminBroadcast
<1>6. CASE AdminBlockedWords(j)
  BY <1>1, <1>6, RemoveCase DEF AdminBlockedWords
<1> QED
  BY <1>4, <1>5, <1>6

\* A step of the specification, in these words.
LEMMA StaffCases ==
    ASSUME StaffInv, StaffNext
    PROVE  \/ Spend /\ UNCHANGED window
           \/ (\E j \in Job : Serves(j)) /\ UNCHANGED window
           \/ Reopen \/ Clicks
           \/ \E j \in Job : Load(j) \/ Reload(j) \/ ReloadFails(j) \/ Listed(j)
<1>1. FormsKnown
  BY FormsAreKnown DEF StaffInv
<1>2. CASE ServerNext /\ UNCHANGED <<window, sent>>
  BY <1>2, ServeCases DEF StaffInv, window
<1>3. CASE Reopen
  BY <1>3
<1>4. ASSUME NEW j \in Job,
             \/ OtherStaff(j) \/ Load(j) \/ Reload(j) \/ ReloadFails(j) \/ Listed(j)
             \/ AdminRewards(j) \/ ModeratorRewards(j) \/ AdminPolls(j) \/ ModeratorPolls(j)
             \/ AdminGoals(j) \/ ModeratorGoals(j) \/ AdminAuctions(j) \/ ModeratorAuctions(j)
             \/ EventsManager(j) \/ ChannelsManager(j) \/ AdminDestinations(j)
             \/ AdminDonations(j) \/ ModeratorDonations(j)
             \/ AdminFeatureFlags(j) \/ AdminBroadcast(j) \/ AdminBlockedWords(j)
      PROVE  Clicks \/ Load(j) \/ Reload(j) \/ ReloadFails(j) \/ Listed(j)
  BY <1>1, <1>4, OtherStaffCase, PageCases, OtherPageCases DEF Clicks
<1> QED
  BY <1>2, <1>3, <1>4 DEF StaffNext

-----------------------------------------------------------------------------
(* The history of the row.                                                 *)

\* The row is written one revision at a time, and not after it was removed.
Grows == row' = row \/ (row' \in Rows /\ row'.rev = row.rev + 1 /\ ~Removed)

LEMMA OlderStays ==
    ASSUME row \in Rows, Grows, NEW old, Older(old)
    PROVE  Older(old)'
  BY DEF Rows, Grows, Removed, Older

LEMMA JobStays ==
    ASSUME row \in Rows, Grows, NEW q, JobSound(q)
    PROVE  JobSound(q)'
<1>1. Older(q.prior)' /\ Older(q.seen)'
  BY OlderStays DEF JobSound
<1>2. q.base <= row'.rev /\ q.wrote <= row'.rev /\ (row.rev > 0 => row'.rev > 0)
  BY DEF JobSound, Jobs, Grows, Rows
<1>3. Removed => row' = row
  BY DEF Grows
<1>4. Removed => Removed'
  BY <1>3 DEF Removed
<1> QED
  BY <1>1, <1>2, <1>4 DEF JobSound

LEMMA IdleSound ==
    ASSUME row \in Rows, row.rev = 0 => row.form = Nothing
    PROVE  Older(Absent) /\ JobSound(Idle)
<1>1. Older(Absent)
  BY IdleTyped DEF Older, Absent, Rows
<1> QED
  BY <1>1, IdleTyped DEF JobSound, Idle, Rows, Writing, Uploading

LEMMA IdleSoundNext ==
    ASSUME row' \in Rows, row'.rev = 0 => row'.form = Nothing
    PROVE  Older(Absent)' /\ JobSound(Idle)'
<1>1. Older(Absent)'
  BY IdleTyped DEF Older, Absent, Rows
<1> QED
  BY <1>1, IdleTyped DEF JobSound, Idle, Rows, Writing, Uploading

\* One request moves on, in a way that fits the row.
LEMMA RowMoves ==
    ASSUME RowInv, Grows, NEW j \in Job, NEW q, Moves(j, q), JobSound(q)'
    PROVE  RowInv'
<1>1. row' \in Rows /\ (row'.rev = 0 => row'.form = Nothing)
  BY DEF RowInv, Grows, Rows
<1>2. q \in Jobs
  BY DEF JobSound
<1>3. job' \in [Job -> Jobs]
  BY <1>2 DEF RowInv, Moves
<1>4. ASSUME NEW k \in Job PROVE JobSound(job[k])'
  <2>1. CASE k = j
    <3>1. job'[k] = q
      BY <2>1 DEF RowInv, Moves
    <3> QED
      BY <3>1 DEF JobSound, Older, Writing, Uploading
  <2>2. CASE k # j
    <3>1. PICK p : p = job[k]
      OBVIOUS
    <3>2. JobSound(p)'
      BY <3>1, JobStays DEF RowInv
    <3>3. job'[k] = p
      BY <2>2, <3>1 DEF RowInv, Moves
    <3> QED
      BY <3>2, <3>3 DEF JobSound, Older, Writing, Uploading
  <2> QED
    BY <2>1, <2>2
<1> QED
  BY <1>1, <1>3, <1>4 DEF RowInv

\* What is left of a request that has been answered.
Blank(q) ==
    q.stage \in {"idle", "answered"} /\ q.form = Nothing /\ q.prior = Absent /\ q.seen = Absent

Done(j) == \E q : Moves(j, q) /\ JobSound(q)' /\ Blank(q)

LEMMA AnswerDone ==
    ASSUME RowInv, NEW j \in Job, NEW w \in Nat, Answer(j, w), row' \in Rows,
           row'.rev = 0 => row'.form = Nothing, w <= row'.rev
    PROVE  Done(j)
<1>1. Older(Absent)' /\ JobSound(Idle)' /\ Absent \in Rows /\ Idle \in Jobs
  BY IdleTyped, IdleSoundNext
<1>2. CASE job[j].page
  <2>0. job[j] \in Jobs
    BY DEF RowInv
  <2>1. PICK q : q = [Idle EXCEPT !.op = job[j].op, !.page = TRUE, !.wrote = w, !.stage = "answered"]
    OBVIOUS
  <2>2. q \in Jobs /\ q.wrote = w /\ q.stage = "answered" /\ q.prior = Absent /\ q.seen = Absent
        /\ q.base = 0 /\ q.form = Nothing
    BY <1>1, <2>0, <2>1 DEF Idle, Jobs
  <2>3. JobSound(q)'
    BY <1>1, <2>2 DEF JobSound, Writing, Uploading, Rows
  <2>4. Moves(j, q)
    BY <1>2, <2>1 DEF Answer, Moves
  <2> QED
    BY <2>2, <2>3, <2>4 DEF Done, Blank
<1>3. CASE ~job[j].page
  <2>1. PICK q : q = Idle
    OBVIOUS
  <2>2. Moves(j, q) /\ JobSound(q)' /\ Blank(q)
    BY <1>1, <1>3, <2>1 DEF Answer, Moves, Blank, Idle
  <2> QED
    BY <2>2 DEF Done
<1> QED
  BY <1>2, <1>3

LEMMA IdleDone ==
    ASSUME RowInv, NEW j \in Job, Moves(j, Idle), row' = row
    PROVE  Done(j)
<1>1. JobSound(Idle)'
  BY IdleSoundNext DEF RowInv
<1>2. PICK q : q = Idle
  OBVIOUS
<1> QED
  BY <1>1, <1>2 DEF Done, Blank, Idle

LEMMA WriteDone ==
    ASSUME RowInv, NEW j \in Job, NEW form \in Form \cup {Nothing}, Write(j, form), ~Removed
    PROVE  Done(j) /\ Grows /\ row'.rev = row.rev + 1 /\ row'.form = form
<1>1. row' = [rev |-> row.rev + 1, form |-> form] /\ row.rev \in Nat
  BY DEF Write, RowInv, Rows
<1>2. row' \in Rows /\ row'.rev = row.rev + 1 /\ row'.form = form
  BY <1>1 DEF Rows
<1>3. PICK w : w = row.rev + 1
  OBVIOUS
<1>4. w \in Nat /\ w <= row'.rev /\ Answer(j, w)
  BY <1>1, <1>2, <1>3 DEF Write
<1>5. Done(j)
  BY <1>1, <1>2, <1>4, AnswerDone
<1> QED
  BY <1>2, <1>5 DEF Grows

LEMMA DoneRow == \A j \in Job : RowInv /\ Grows /\ Done(j) => RowInv'
  BY RowMoves DEF Done

LEMMA SoundRow ==
    ASSUME RowInv, row' = row, NEW j \in Job, NEW q, Moves(j, q), JobSound(q)
    PROVE  RowInv'
  BY RowMoves, JobStays DEF RowInv, Grows

LEMMA JobTyped ==
    ASSUME RowInv, NEW j \in Job
    PROVE  JobSound(job[j]) /\ job[j] \in Jobs /\ row \in Rows
  BY DEF RowInv

LEMMA ReadsSound ==
    ASSUME RowInv, NEW j \in Job, Reads(j)
    PROVE  RowInv'
<1>1. PICK p : p = job[j]
  OBVIOUS
<1>2. PICK r : r = row
  OBVIOUS
<1>3. PICK q : q = [p EXCEPT !.prior = r, !.stage = "read"]
  OBVIOUS
<1>4. JobSound(p) /\ p \in Jobs /\ r \in Rows
  BY <1>1, <1>2, JobTyped
<1>5. /\ q \in Jobs /\ q.prior = r /\ q.stage = "read" /\ q.op = p.op /\ q.seen = p.seen
      /\ q.base = p.base /\ q.wrote = p.wrote /\ q.form = p.form
  BY <1>3, <1>4 DEF Jobs
<1>6. Older(r)
  BY <1>2, <1>4 DEF Older, Rows
<1>7. r.rev > 0 /\ (p.op = "put" => r.form # Nothing /\ p.form # Nothing) /\ p.op \in {"put", "delete"}
  BY <1>1, <1>2, <1>4 DEF Reads, At, JobSound, Writing, RowInv, Rows
<1>8. JobSound(q)
  BY <1>4, <1>5, <1>6, <1>7 DEF JobSound, Writing, Uploading
<1> QED
  BY <1>1, <1>2, <1>3, <1>8, SoundRow DEF Reads

LEMMA StageSound ==
    ASSUME RowInv, row' = row, NEW j \in Job, NEW s,
           \/ s = "counted" /\ At(j, "sent") /\ job[j].op = "delete"
           \/ s = "unlinked" /\ At(j, "read") /\ job[j].op = "put"
           \/ s = "stored" /\ At(j, "sent") /\ job[j].op = "upload",
           Moves(j, [job[j] EXCEPT !.stage = s])
    PROVE  RowInv'
<1>1. PICK p : p = job[j]
  OBVIOUS
<1>2. PICK q : q = [p EXCEPT !.stage = s]
  OBVIOUS
<1>3. JobSound(p) /\ p \in Jobs
  BY <1>1, JobTyped
<1>4. /\ q \in Jobs /\ q.prior = p.prior /\ q.stage = s /\ q.op = p.op /\ q.seen = p.seen
      /\ q.base = p.base /\ q.wrote = p.wrote /\ q.form = p.form
  BY <1>2, <1>3 DEF Jobs
<1>5. JobSound(q)
  BY <1>1, <1>3, <1>4 DEF JobSound, Writing, Uploading, At
<1> QED
  BY <1>1, <1>2, <1>5, SoundRow

LEMMA DeletesRowSound ==
    ASSUME RowInv, NEW j \in Job, DeletesRow(j)
    PROVE  RowInv' /\ Removed' /\ Grows
<1>1. PICK p : p = job[j]
  OBVIOUS
<1>2. PICK w : w = row.rev + 1
  OBVIOUS
<1>3. PICK q : q = [p EXCEPT !.stage = "deleted", !.wrote = w]
  OBVIOUS
<1>4. JobSound(p) /\ p \in Jobs /\ row \in Rows /\ w \in Nat /\ w = row.rev + 1
  BY <1>1, <1>2, JobTyped DEF Rows
<1>5. /\ q \in Jobs /\ q.prior = p.prior /\ q.stage = "deleted" /\ q.op = p.op /\ q.seen = p.seen
      /\ q.base = p.base /\ q.wrote = w /\ q.form = p.form
  BY <1>3, <1>4 DEF Jobs
<1>6. row' \in Rows /\ row'.rev = w /\ row'.form = Nothing /\ Grows
  BY <1>4 DEF DeletesRow, Rows, Grows, Removed
<1>7. Removed'
  BY <1>4, <1>6 DEF Removed, Rows
<1>8. p.op = "delete" /\ p.stage = "read" /\ row.form # Nothing
  BY <1>1 DEF DeletesRow, At
<1>9. Older(p.prior) /\ p.prior.rev > 0
  BY <1>4, <1>8 DEF JobSound
<1>10. p.prior.form # Nothing
  BY <1>8, <1>9 DEF Older
<1>11. JobSound(p)'
  BY <1>4, <1>6, JobStays
<1>12. JobSound(q)'
  BY <1>5, <1>6, <1>7, <1>8, <1>11, <1>10 DEF JobSound, Writing, Uploading, Jobs
<1>13. Moves(j, q)
  BY <1>1, <1>2, <1>3 DEF DeletesRow
<1> QED
  BY <1>6, <1>7, <1>12, <1>13, RowMoves

\* What a request does to the row, when it writes it.
Writes(j) == \E form \in Form \cup {Nothing} : Write(j, form) /\ ~Removed

LEMMA WritesRow ==
    \A j \in Job : RowInv /\ Writes(j) => Done(j) /\ Grows /\ row'.rev = row.rev + 1
  BY WriteDone DEF Writes

LEMMA InsertsDone ==
    ASSUME RowInv, NEW j \in Job, Inserts(j)
    PROVE  /\ Done(j) /\ Grows
           /\ \/ row' = row
              \/ row.rev = 0 /\ ~Removed /\ row'.rev = 1 /\ row'.form = job[j].form /\ job[j].form \in Form
<1>1. CASE row = Absent
  <2>1. job[j].form \in Form
    BY RowForms DEF Inserts, Insert, Writing, At
  <2>2. ~Removed /\ Write(j, job[j].form) /\ row.rev = 0
    BY <1>1, RowForms DEF Removed, Absent, Inserts, Insert
  <2> QED
    BY <2>1, <2>2, WriteDone
<1>2. CASE row # Absent
  <2>1. Answer(j, 0) /\ row' = row
    BY <1>2 DEF Inserts, Insert
  <2>2. Done(j)
    BY <2>1, AnswerDone DEF RowInv, Rows
  <2> QED
    BY <2>1, <2>2 DEF Grows
<1> QED
  BY <1>1, <1>2

LEMMA ReplacesDone ==
    ASSUME RowInv, NEW j \in Job, Replaces(j)
    PROVE  /\ Done(j) /\ Grows /\ ~Removed /\ row.form # Nothing
           /\ row'.rev = row.rev + 1 /\ row'.form = job[j].form /\ job[j].form \in Form
<1>1. /\ row.form # Nothing /\ Write(j, job[j].form)
      /\ Writing(job[j])
  BY DEF Replaces, Replace, Writing, At
<1>2. job[j].form \in Form /\ ~Removed
  BY <1>1, RowForms DEF Removed
<1> QED
  BY <1>1, <1>2, WriteDone

LEMMA RewritesDone ==
    ASSUME RowInv, NEW j \in Job, Rewrites(j)
    PROVE  /\ Done(j) /\ Grows /\ ~Removed /\ row.form # Nothing
           /\ row'.rev = row.rev + 1 /\ row'.form \in Form
           /\ row'.form.image = row.form.image /\ Tells(j, row'.form)
<1>1. PICK form \in Form : form.image = row.form.image /\ Write(j, form) /\ Tells(j, form)
  BY DEF Rewrites
<1>2. ~Removed /\ row.form # Nothing
  BY DEF Rewrites, Removed
<1>3. Done(j) /\ Grows /\ row'.rev = row.rev + 1 /\ row'.form = form
  BY <1>1, <1>2, WriteDone
<1> QED
  BY <1>1, <1>2, <1>3

LEMMA DeletesDone ==
    ASSUME RowInv, NEW j \in Job, Deletes(j)
    PROVE  Done(j) /\ Grows /\ Removed'
<1>1. ~Removed /\ row.form # Nothing /\ Write(j, Nothing)
  BY DEF Deletes, Removed
<1>2. Done(j) /\ Grows /\ row'.rev = row.rev + 1 /\ row'.form = Nothing
  BY <1>1, WriteDone
<1>3. Removed'
  BY <1>2, RowForms DEF Removed
<1> QED
  BY <1>2, <1>3

LEMMA DeleteImageDone ==
    ASSUME RowInv, NEW j \in Job, DeleteImage(j)
    PROVE  /\ Done(j) /\ Grows /\ Removed' /\ row' = row /\ kind' = kind
           /\ job[j].prior.form \in Form /\ files' = files \ {job[j].prior.form.image}
<1>1. At(j, "deleted") /\ Answer(j, job[j].wrote) /\ row' = row /\ kind' = kind
      /\ files' = files \ {job[j].prior.form.image}
  BY DEF DeleteImage
<1>2. Removed /\ job[j].wrote \in Nat /\ job[j].wrote <= row.rev /\ job[j].prior.form \in Form
  BY <1>1, JobTyped DEF JobSound, Jobs, At, Rows
<1>3. Done(j)
  BY <1>1, <1>2, AnswerDone DEF RowInv
<1>4. Removed'
  BY <1>1, <1>2 DEF Removed
<1> QED
  BY <1>1, <1>2, <1>3, <1>4 DEF Grows

LEMMA ServesRow ==
    ASSUME RowInv, NEW j \in Job, Serves(j)
    PROVE  RowInv'
<1>1. CASE Refuses(j)
  BY <1>1, IdleDone, DoneRow DEF Refuses, Grows
<1>2. CASE Reads(j)
  BY <1>2, ReadsSound
<1>3. CASE Counts(j) \/ Unlinks(j) \/ Uploads(j)
  BY <1>3, StageSound DEF Counts, Unlinks, Unlink, Uploads, Step, Moves
<1>4. CASE Inserts(j)
  BY <1>4, InsertsDone, DoneRow
<1>5. CASE Replaces(j)
  BY <1>5, ReplacesDone, DoneRow
<1>6. CASE Rewrites(j)
  BY <1>6, RewritesDone, DoneRow
<1>7. CASE Deletes(j)
  BY <1>7, DeletesDone, DoneRow
<1>8. CASE DeletesRow(j)
  BY <1>8, DeletesRowSound
<1>9. CASE DeleteImage(j)
  BY <1>9, DeleteImageDone, DoneRow
<1> QED
  BY <1>1, <1>2, <1>3, <1>4, <1>5, <1>6, <1>7, <1>8, <1>9 DEF Serves

LEMMA SendsSound ==
    ASSUME RowInv, WindowInv, NEW op \in {"post", "put", "delete", "refund", "act"},
           NEW form \in Form \cup {Nothing}, NEW base \in Nat, Starts(op, form, base),
           NEW q \in Jobs, Begins(q, op, form, base)
    PROVE  JobSound(q)
<1>1. /\ q.op = op /\ q.form = form /\ q.base = base /\ q.stage = "sent"
      /\ q.prior = Absent /\ q.seen = Absent /\ q.wrote = 0
  BY DEF Begins
<1>2. /\ Older(shown) /\ shown \in Rows /\ row \in Rows /\ draft.base <= row.rev
      /\ (row.rev = 0 => row.form = Nothing) /\ Nothing \notin Form
  BY RowForms DEF WindowInv, RowInv, Older
<1>3. base <= row.rev
  BY <1>2 DEF Starts, Older, Rows
<1>4. op = "delete" => row.rev > 0
  BY <1>2 DEF Starts, Older, Rows
<1>5. op \in {"post", "put"} => form # Nothing
  BY <1>2 DEF Starts
<1>6. op = "post" => base = 0
  BY DEF Starts
<1>7. Older(Absent)
  BY <1>2, IdleSound
<1> QED
  BY <1>1, <1>2, <1>3, <1>4, <1>5, <1>6, <1>7 DEF JobSound, Writing, Uploading, Rows

LEMMA SendsRow ==
    ASSUME RowInv, WindowInv, NEW j \in Job, Sends(j)
    PROVE  RowInv'
<1>1. PICK op \in {"post", "put", "delete", "refund", "act"}, form \in Form \cup {Nothing},
           base \in Nat, q \in Jobs :
          Starts(op, form, base) /\ Begins(q, op, form, base) /\ Moves(j, q)
  BY DEF Sends
<1>2. JobSound(q) /\ Moves(j, q)
  BY <1>1, SendsSound
<1>3. row' = row
  BY DEF Sends, server
<1> QED
  BY <1>2, <1>3, SoundRow

LEMMA SendsImageRow ==
    ASSUME RowInv, NEW j \in Job, SendsImage(j)
    PROVE  RowInv'
<1>1. PICK i \in Image, form \in Form, q \in Jobs :
          Unused(i) /\ form.image = i /\ Begins(q, "upload", form, 0) /\ Moves(j, q)
  BY DEF SendsImage
<1>2. /\ q \in Jobs /\ q.op = "upload" /\ q.form = form /\ q.base = 0 /\ q.stage = "sent"
      /\ q.prior = Absent /\ q.seen = Absent /\ q.wrote = 0
  BY <1>1 DEF Begins
<1>3. Older(Absent) /\ row.rev \in Nat /\ form # Nothing
  BY IdleSound, RowForms DEF RowInv, Rows
<1>4. JobSound(q)
  BY <1>2, <1>3 DEF JobSound, Writing, Uploading
<1>5. Moves(j, q) /\ row' = row
  BY <1>1 DEF SendsImage, server
<1> QED
  BY <1>4, <1>5, SoundRow

LEMMA LoadRow ==
    ASSUME RowInv, NEW j \in Job, Load(j)
    PROVE  RowInv'
<1>1. PICK q : q = [Idle EXCEPT !.op = "load", !.page = TRUE, !.seen = row, !.stage = "listed"]
  OBVIOUS
<1>2. /\ q \in Jobs /\ q.op = "load" /\ q.form = Nothing /\ q.base = 0 /\ q.stage = "listed"
      /\ q.prior = Absent /\ q.seen = row /\ q.wrote = 0
  BY <1>1, IdleTyped DEF Idle, Jobs, RowInv
<1>3. Older(Absent) /\ Older(row) /\ row.rev \in Nat
  BY IdleSound DEF RowInv, Rows, Older
<1>4. JobSound(q)
  BY <1>2, <1>3 DEF JobSound, Writing, Uploading
<1>5. Moves(j, q) /\ row' = row
  BY <1>1 DEF Load, Moves, server
<1> QED
  BY <1>4, <1>5, SoundRow

LEMMA ReloadRow ==
    ASSUME RowInv, NEW j \in Job, Reload(j)
    PROVE  RowInv'
<1>1. PICK p : p = job[j]
  OBVIOUS
<1>2. PICK r : r = row
  OBVIOUS
<1>3. PICK q : q = [p EXCEPT !.stage = "listed", !.seen = r]
  OBVIOUS
<1>4. JobSound(p) /\ p \in Jobs /\ r \in Rows /\ r = row
  BY <1>1, <1>2, JobTyped
<1>5. /\ q \in Jobs /\ q.prior = p.prior /\ q.stage = "listed" /\ q.op = p.op /\ q.seen = r
      /\ q.base = p.base /\ q.wrote = p.wrote /\ q.form = p.form
  BY <1>3, <1>4 DEF Jobs
<1>6. Older(r)
  BY <1>4 DEF Older, Rows
<1>7. JobSound(q)
  BY <1>4, <1>5, <1>6 DEF JobSound, Writing, Uploading
<1>8. Moves(j, q) /\ row' = row
  BY <1>1, <1>2, <1>3 DEF Reload, Moves, server, Fetched
<1> QED
  BY <1>7, <1>8, SoundRow

LEMMA StopRow ==
    ASSUME RowInv, NEW j \in Job, ReloadFails(j) \/ Listed(j) \/ ImageStored(j)
    PROVE  RowInv'
<1>1. Moves(j, Idle) /\ row' = row
  BY DEF ReloadFails, Listed, ImageStored, Moves, server
<1> QED
  BY <1>1, IdleDone, DoneRow DEF Grows

LEMMA ReopenRow ==
    ASSUME RowInv, Reopen
    PROVE  RowInv'
<1>1. row' = row
  BY DEF Reopen, server
<1>2. ASSUME NEW k \in Job PROVE job'[k] \in Jobs /\ JobSound(job[k])'
  <2>1. PICK p : p = job[k]
    OBVIOUS
  <2>2. p \in Jobs /\ JobSound(p)
    BY <2>1, JobTyped
  <2>3. PICK q : q = [p EXCEPT !.page = FALSE]
    OBVIOUS
  <2>4. /\ q \in Jobs /\ q.prior = p.prior /\ q.stage = p.stage /\ q.op = p.op /\ q.seen = p.seen
        /\ q.base = p.base /\ q.wrote = p.wrote /\ q.form = p.form
    BY <2>2, <2>3 DEF Jobs
  <2>5. JobSound(q)
    BY <2>2, <2>4 DEF JobSound, Writing, Uploading
  <2>6. JobSound(q)' /\ JobSound(Idle)'
    BY <1>1, <2>5, JobStays, IdleSoundNext DEF RowInv, Grows
  <2>7. job'[k] = Idle \/ job'[k] = q
    BY <2>1, <2>3 DEF Reopen
  <2>8. CASE job'[k] = Idle
    BY <2>6, <2>8, IdleTyped DEF JobSound, Older, Writing, Uploading
  <2>9. CASE job'[k] = q
    BY <2>4, <2>6, <2>9 DEF JobSound, Older, Writing, Uploading
  <2> QED
    BY <2>7, <2>8, <2>9
<1>3. job' \in [Job -> Jobs]
  BY <1>2 DEF Reopen
<1> QED
  BY <1>1, <1>2, <1>3 DEF RowInv

LEMMA StillRow ==
    ASSUME RowInv, row' = row, job' = job
    PROVE  RowInv'
  BY DEF RowInv, JobSound, Older, Writing, Uploading, Removed

\* The kinds of step of StaffCases.
LEMMA RowKept ==
    ASSUME StaffInv, StaffNext
    PROVE  RowInv'
<1>1. RowInv /\ WindowInv
  BY DEF StaffInv
<1>2. CASE Spend
  BY <1>1, <1>2, StillRow DEF Spend
<1>3. ASSUME NEW j \in Job, Serves(j) PROVE RowInv'
  BY <1>1, <1>3, ServesRow
<1>4. CASE Reopen
  BY <1>1, <1>4, ReopenRow
<1>5. CASE Edits
  BY <1>1, <1>5, StillRow DEF Edits, server
<1>6. ASSUME NEW j \in Job, Sends(j) \/ SendsImage(j) \/ ImageStored(j) \/ Load(j) \/ Reload(j)
             \/ ReloadFails(j) \/ Listed(j)
      PROVE  RowInv'
  BY <1>1, <1>6, SendsRow, SendsImageRow, StopRow, LoadRow, ReloadRow
<1> QED
  BY <1>2, <1>3, <1>4, <1>5, <1>6, StaffCases DEF Clicks

-----------------------------------------------------------------------------
(* What the page shows.                                                    *)

LEMMA ServesGrows ==
    ASSUME RowInv, NEW j \in Job, Serves(j)
    PROVE  Grows
<1>1. CASE Refuses(j) \/ Reads(j) \/ Counts(j) \/ Unlinks(j) \/ Uploads(j)
  BY <1>1 DEF Refuses, Reads, Counts, Unlinks, Unlink, Uploads, Grows
<1> QED
  BY <1>1, InsertsDone, ReplacesDone, RewritesDone, DeletesDone, DeleteImageDone, DeletesRowSound
     DEF Serves

LEMMA WindowStays ==
    ASSUME RowInv, WindowInv, Grows, UNCHANGED window
    PROVE  WindowInv'
<1>1. PICK s : s = shown
  OBVIOUS
<1>2. Older(s)'
  BY <1>1, OlderStays DEF RowInv, WindowInv
<1>3. shown' = s /\ dialog' = dialog /\ draft' = draft
  BY <1>1 DEF window
<1>4. Older(shown)'
  BY <1>2, <1>3 DEF Older
<1>5. draft.base <= row'.rev
  BY DEF WindowInv, RowInv, Grows, Rows
<1> QED
  BY <1>3, <1>4, <1>5 DEF WindowInv

LEMMA NoDraftTyped == NoDraft \in [form : Form, base : Nat] /\ NoDraft.base = 0 /\ NoDraft.form.image = Nothing
  BY DEF NoDraft, NewForm, Form

LEMMA EditsWindow ==
    ASSUME RowInv, WindowInv, Edits
    PROVE  WindowInv'
<1>1. Older(shown)'
  BY DEF Edits, server, WindowInv, Older
<1>2. row' = row /\ row.rev \in Nat /\ shown \in Rows /\ shown.rev <= row.rev
  BY DEF Edits, server, RowInv, Rows, WindowInv, Older
<1>3. CASE dialog' \in {"none", "create"} /\ draft' = NoDraft
  BY <1>1, <1>2, <1>3, NoDraftTyped DEF WindowInv
<1>4. CASE /\ shown.form # Nothing /\ dialog' = "edit"
           /\ draft' = [form |-> shown.form, base |-> shown.rev]
  BY <1>1, <1>2, <1>4 DEF WindowInv, Rows
<1>5. CASE dialog' = "label" /\ draft' = draft
  BY <1>1, <1>2, <1>5 DEF WindowInv
<1> QED
  BY <1>3, <1>4, <1>5 DEF Edits

LEMMA ListedWindow ==
    ASSUME RowInv, WindowInv, NEW j \in Job, Listed(j)
    PROVE  WindowInv'
<1>1. shown' = job[j].seen /\ row' = row /\ row.rev \in Nat /\ Older(job[j].seen)
  BY JobTyped DEF Listed, server, JobSound, Rows
<1>2. Older(shown)'
  BY <1>1 DEF Older
<1>3. CASE Close
  BY <1>1, <1>2, <1>3, NoDraftTyped DEF WindowInv, Close
<1>4. CASE UNCHANGED <<dialog, draft>>
  BY <1>1, <1>2, <1>4 DEF WindowInv
<1> QED
  BY <1>3, <1>4 DEF Listed

LEMMA ImageStoredWindow ==
    ASSUME RowInv, WindowInv, UploadInv, NEW j \in Job, ImageStored(j)
    PROVE  WindowInv'
<1>1. Older(shown)'
  BY DEF ImageStored, server, WindowInv, Older
<1>2. Uploading(job[j])
  BY JobTyped DEF ImageStored, At, JobSound, Uploading
<1>3. job[j].form.image \in Image
  BY <1>2 DEF UploadInv
<1>4. draft' \in [form : Form, base : Nat] /\ draft'.base = draft.base
  BY <1>3 DEF ImageStored, WindowInv, Form
<1> QED
  BY <1>1, <1>4 DEF ImageStored, server, WindowInv

LEMMA ReopenWindow ==
    ASSUME RowInv, Reopen
    PROVE  WindowInv'
<1>1. shown' = Absent /\ row' = row /\ Close
  BY DEF Reopen, server
<1>2. Older(Absent)' /\ row.rev \in Nat
  BY <1>1, IdleSoundNext DEF RowInv, Rows
<1>3. Older(shown)'
  BY <1>1, <1>2 DEF Older
<1> QED
  BY <1>1, <1>2, <1>3, NoDraftTyped DEF WindowInv, Close

LEMMA ReloadWindow ==
    ASSUME WindowInv, NEW j \in Job, Reload(j)
    PROVE  WindowInv'
  BY DEF WindowInv, Reload, server, Older

LEMMA WindowKept ==
    ASSUME StaffInv, StaffNext
    PROVE  WindowInv'
<1>1. RowInv /\ WindowInv /\ UploadInv
  BY DEF StaffInv
<1>2. CASE Spend /\ UNCHANGED window
  BY <1>1, <1>2, WindowStays DEF Spend, Grows
<1>3. ASSUME NEW j \in Job, Serves(j), UNCHANGED window PROVE WindowInv'
  BY <1>1, <1>3, ServesGrows, WindowStays
<1>4. CASE Reopen
  BY <1>1, <1>4, ReopenWindow
<1>5. CASE Edits
  BY <1>1, <1>5, EditsWindow
<1>6. ASSUME NEW j \in Job, Sends(j) \/ SendsImage(j) \/ Load(j) \/ ReloadFails(j)
      PROVE  WindowInv'
  BY <1>1, <1>6, WindowStays DEF Sends, SendsImage, Load, ReloadFails, server, Grows
<1>7. ASSUME NEW j \in Job, Reload(j) \/ Listed(j) \/ ImageStored(j)
      PROVE  WindowInv'
  BY <1>1, <1>7, ReloadWindow, ListedWindow, ImageStoredWindow
<1> QED
  BY <1>2, <1>3, <1>4, <1>5, <1>6, <1>7, StaffCases DEF Clicks

-----------------------------------------------------------------------------
(* What consumers are told.                                                *)

LEMMA ToldStays ==
    ASSUME ToldInv, UNCHANGED <<kind, row, told, crossed>>
    PROVE  ToldInv'
  BY DEF ToldInv, Announced

LEMMA FactsTyped ==
    ASSUME NEW form \in Form
    PROVE  Facts(form) # Nothing
  BY IncentivesAssumption DEF Facts, Form

LEMMA InsertsTold ==
    ASSUME RowInv, ToldInv, NEW j \in Job, Inserts(j)
    PROVE  ToldInv'
<1>1. kind' = kind
  BY DEF Inserts, Insert
<1>2. CASE Unannounced
  <2>1. Announced => "told" \in crossed'
    BY <1>2 DEF Unannounced
  <2> QED
    BY <1>1, <2>1 DEF ToldInv, Announced
<1>3. CASE TellsCreated(j) /\ UNCHANGED crossed /\ row # Absent
  <2>1. row' = row /\ told' = told
    BY <1>3 DEF Inserts, Insert, TellsCreated
  <2> QED
    BY <1>1, <1>3, <2>1, ToldStays
<1>4. CASE TellsCreated(j) /\ row = Absent
  <2>1. row'.form = job[j].form /\ told' = Facts(job[j].form)
    BY <1>4 DEF Inserts, Insert, Write, TellsCreated
  <2> QED
    BY <2>1 DEF ToldInv, Facts
<1> QED
  BY <1>2, <1>3, <1>4 DEF Inserts

LEMMA ReplacesTold ==
    ASSUME RowInv, ToldInv, NEW j \in Job, Replaces(j)
    PROVE  ToldInv'
<1>1. PICK from : \/ Replace(j, from, TRUE) /\ TellsChanges(j)
                  \/ Replace(j, from, FALSE) /\ TellsNothing
  BY DEF Replaces
<1>2. /\ row'.form = job[j].form /\ job[j].form \in Form /\ row.form # Nothing
      /\ row.form \in Form /\ kind' = kind
  BY <1>1, ReplacesDone, RowForms DEF Replace
<1>3. CASE Replace(j, from, FALSE)
  <2>1. Announced => "told" \in crossed'
    BY <1>3 DEF Replace, Crosses
  <2> QED
    BY <1>2, <2>1 DEF ToldInv, Announced
<1>4. CASE Replace(j, from, TRUE) /\ TellsChanges(j)
  <2>1. SUFFICES ASSUME Announced, "told" \notin crossed' PROVE told' = Facts(job[j].form)
    BY <1>2 DEF ToldInv, Announced, Facts
  <2>2. job[j].prior = row /\ "told" \notin crossed
    BY <1>4, <2>1 DEF Replace, Crosses
  <2>3. told = Facts(row.form) /\ told # Nothing
    BY <1>2, <2>1, <2>2, FactsTyped DEF ToldInv
  <2>4. told' = Changed(told, row.form, job[j].form)
    BY <1>4, <2>2, <2>3 DEF TellsChanges
  <2> QED
    BY <2>3, <2>4 DEF Changed, Facts
<1> QED
  BY <1>1, <1>3, <1>4

LEMMA RewritesTold ==
    ASSUME RowInv, ToldInv, NEW j \in Job, Rewrites(j)
    PROVE  ToldInv'
<1>1. Tells(j, row'.form) /\ row.form # Nothing /\ row.form \in Form /\ kind' = kind
  BY RewritesDone, RowForms DEF Rewrites
<1>2. CASE UNCHANGED <<told, crossed>> /\ (row'.form = row.form \/ ~Announced)
  BY <1>1, <1>2 DEF ToldInv, Announced, Facts
<1>3. CASE /\ row'.form = [row.form EXCEPT !.active = FALSE]
           /\ told' = IF told # Nothing /\ job[j].prior.form.active THEN [told EXCEPT !.active = FALSE]
                      ELSE told
           /\ crossed' = crossed \cup Crosses(j, TRUE)
  <2>1. SUFFICES ASSUME Announced, "told" \notin crossed' PROVE told' = Facts(row'.form)
    BY <1>1 DEF ToldInv, Announced, Facts
  <2>2. job[j].prior = row /\ "told" \notin crossed
    BY <1>3, <2>1 DEF Crosses
  <2>3. told = Facts(row.form) /\ told # Nothing
    BY <1>1, <2>1, <2>2, FactsTyped DEF ToldInv
  <2>4. told' = IF row.form.active THEN [told EXCEPT !.active = FALSE] ELSE told
    BY <1>3, <2>2, <2>3
  <2>5. row.form.active \in BOOLEAN
    BY <1>1 DEF Form
  <2>6. Facts(row'.form) = [value |-> row.form.value, active |-> FALSE]
    BY <1>1, <1>3 DEF Facts, Form
  <2>7. CASE row.form.active
    BY <2>3, <2>4, <2>6, <2>7 DEF Facts
  <2>8. CASE row.form.active = FALSE
    BY <2>3, <2>4, <2>6, <2>8 DEF Facts
  <2> QED
    BY <2>5, <2>7, <2>8
<1> QED
  BY <1>1, <1>2, <1>3 DEF Tells

LEMMA ToldKept ==
    ASSUME StaffInv, StaffNext
    PROVE  ToldInv'
<1>1. RowInv /\ ToldInv
  BY DEF StaffInv
<1>2. ASSUME NEW j \in Job, Serves(j) PROVE ToldInv'
  <2>1. CASE \/ Refuses(j) \/ Reads(j) \/ Counts(j) \/ Unlinks(j) \/ DeleteImage(j) \/ Uploads(j)
    BY <1>1, <2>1, ToldStays DEF Refuses, Reads, Counts, Unlinks, Unlink, DeleteImage, Uploads
  <2>2. CASE Deletes(j) \/ DeletesRow(j)
    BY <2>2 DEF Deletes, DeletesRow, Write, ToldInv
  <2> QED
    BY <1>1, <1>2, <2>1, <2>2, InsertsTold, ReplacesTold, RewritesTold DEF Serves
<1>3. CASE Spend \/ Reopen \/ Edits
  BY <1>1, <1>3, ToldStays DEF Spend, Reopen, Edits, server
<1>4. ASSUME NEW j \in Job, Sends(j) \/ SendsImage(j) \/ ImageStored(j) \/ Load(j) \/ Reload(j)
             \/ ReloadFails(j) \/ Listed(j)
      PROVE  ToldInv'
  BY <1>1, <1>4, ToldStays
     DEF Sends, SendsImage, ImageStored, Load, Reload, ReloadFails, Listed, server
<1> QED
  BY <1>2, <1>3, <1>4, StaffCases DEF Clicks

-----------------------------------------------------------------------------
(* Whose file an upload is.                                                *)

\* Nothing but request j has the image.
Alone(j, i) ==
    /\ \A form \in {row.form, shown.form, draft.form} : Lacks(form, i)
    /\ \A k \in Job : Lacks(job[k].prior.form, i) /\ Lacks(job[k].seen.form, i)
    /\ \A k \in Job \ {j} : Lacks(job[k].form, i)

UploadSound(j) ==
    Uploading(job[j]) =>
        /\ job[j].form.image \in Image /\ (At(j, "stored") => job[j].form.image \in files)
        /\ Alone(j, job[j].form.image)

LEMMA UploadsSound == UploadInv <=> \A j \in Job : UploadSound(j)
  BY DEF UploadInv, UploadSound, Alone

LEMMA UploadsSoundNext == (\A j \in Job : UploadSound(j)') => UploadInv'
  BY DEF UploadInv, UploadSound, Alone, Uploading, At, Lacks

\* A request that moves on reads the row and takes no new form.
Keeps(k) ==
    \E q : /\ Moves(k, q)
           /\ q.prior \in {job[k].prior, row, Absent} /\ q.seen \in {job[k].seen, row, Absent}
           /\ q.form \in {job[k].form, Nothing}
           /\ Uploading(q) => Uploading(job[k]) /\ q.form = job[k].form
           /\ q.stage = "stored" => job[k].stage = "stored" \/ job[k].form.image \in files'

LEMMA KeepsAlone ==
    ASSUME RowInv, NEW j \in Job, NEW i \in Image, Alone(j, i), NEW k \in Job, Keeps(k),
           row'.form # Nothing => row'.form.image # i,
           shown'.form # Nothing => shown'.form.image # i,
           draft'.form # Nothing => draft'.form.image # i
    PROVE  Alone(j, i)'
<1>1. PICK q : /\ Moves(k, q)
               /\ q.prior \in {job[k].prior, row, Absent} /\ q.seen \in {job[k].seen, row, Absent}
               /\ q.form \in {job[k].form, Nothing}
  BY DEF Keeps
<1>2. /\ job'[k] = q /\ \A m \in Job \ {k} : job'[m] = job[m]
  BY <1>1 DEF Moves, RowInv
<1>3. Lacks(Absent.form, i) /\ Lacks(row.form, i)
  BY DEF Absent, Lacks, Alone
<1>4. Lacks(q.prior.form, i) /\ Lacks(q.seen.form, i) /\ (k # j => Lacks(q.form, i))
  BY <1>1, <1>3 DEF Lacks, Alone
<1>5. ASSUME NEW m \in Job
      PROVE  /\ Lacks(job[m].prior.form, i)' /\ Lacks(job[m].seen.form, i)'
             /\ m # j => Lacks(job[m].form, i)'
  BY <1>2, <1>4 DEF Lacks, Alone
<1>6. \A form \in {row'.form, shown'.form, draft'.form} : form # Nothing => form.image # i
  OBVIOUS
<1> QED
  BY <1>5, <1>6 DEF Lacks, Alone

LEMMA KeepsUpload ==
    ASSUME RowInv, UploadInv, NEW k \in Job, Keeps(k),
           \A j \in Job : Uploading(job[j]) =>
               LET i == job[j].form.image
               IN  /\ At(j, "stored") => i \in files'
                   /\ row'.form # Nothing => row'.form.image # i
                   /\ shown'.form # Nothing => shown'.form.image # i
                   /\ draft'.form # Nothing => draft'.form.image # i
    PROVE  UploadInv'
<1>1. SUFFICES ASSUME NEW j \in Job, Uploading(job[j])' PROVE UploadSound(j)'
  BY UploadsSoundNext DEF UploadSound
<1>2. PICK q : /\ Moves(k, q)
               /\ Uploading(q) => Uploading(job[k]) /\ q.form = job[k].form
               /\ q.stage = "stored" => job[k].stage = "stored" \/ job[k].form.image \in files'
  BY DEF Keeps
<1>3. /\ job'[k] = q /\ \A m \in Job \ {k} : job'[m] = job[m]
  BY <1>2 DEF Moves, RowInv
<1>4. Uploading(job[j]) /\ job'[j].form = job[j].form
  BY <1>1, <1>2, <1>3 DEF Uploading
<1>5. PICK i : i = job[j].form.image
  OBVIOUS
<1>6. i \in Image /\ Alone(j, i)
  BY <1>4, <1>5, UploadsSound DEF UploadSound
<1>7. Alone(j, i)'
  BY <1>4, <1>5, <1>6, KeepsAlone
<1>8. job'[j].stage = "stored" => i \in files'
  BY <1>2, <1>3, <1>4, <1>5 DEF At
<1>9. job'[j].form.image = i
  BY <1>4, <1>5
<1> QED
  BY <1>6, <1>7, <1>8, <1>9 DEF UploadSound, At, Alone, Lacks

LEMMA DoneKeeps == \A j \in Job : Done(j) => Keeps(j)
  BY DEF Done, Keeps, Blank, Uploading

LEMMA ServesKeeps ==
    ASSUME RowInv, NEW j \in Job, Serves(j)
    PROVE  Keeps(j)
<1>1. CASE Inserts(j) \/ Replaces(j) \/ Rewrites(j) \/ Deletes(j) \/ DeleteImage(j)
  BY <1>1, DoneKeeps, InsertsDone, ReplacesDone, RewritesDone, DeletesDone, DeleteImageDone
<1>2. CASE Refuses(j)
  BY <1>2, DoneKeeps, IdleDone DEF Refuses
<1>3. job[j] \in Jobs
  BY JobTyped
<1>4. CASE Reads(j)
  <2>1. PICK q : q = [job[j] EXCEPT !.prior = row, !.stage = "read"]
    OBVIOUS
  <2>2. /\ q.prior = row /\ q.seen = job[j].seen /\ q.form = job[j].form /\ q.stage = "read"
        /\ Moves(j, q)
    BY <1>3, <1>4, <2>1 DEF Jobs, Reads
  <2> QED
    BY <2>2 DEF Keeps, Uploading
<1>5. ASSUME NEW s, Moves(j, [job[j] EXCEPT !.stage = s]), s \in {"counted", "unlinked", "stored"},
             s = "stored" => At(j, "sent") /\ job[j].form.image \in files'
      PROVE  Keeps(j)
  <2>1. PICK q : q = [job[j] EXCEPT !.stage = s]
    OBVIOUS
  <2>2. /\ q.prior = job[j].prior /\ q.seen = job[j].seen /\ q.form = job[j].form /\ q.stage = s
        /\ q.op = job[j].op /\ Moves(j, q)
    BY <1>3, <1>5, <2>1 DEF Jobs
  <2> QED
    BY <1>5, <2>2 DEF Keeps, Uploading, At
<1>6. CASE Counts(j) \/ Unlinks(j) \/ Uploads(j)
  BY <1>5, <1>6 DEF Counts, Unlinks, Unlink, Uploads, Step, Moves
<1>7. CASE DeletesRow(j)
  <2>1. PICK q : q = [job[j] EXCEPT !.stage = "deleted", !.wrote = row.rev + 1]
    OBVIOUS
  <2>2. /\ q.prior = job[j].prior /\ q.seen = job[j].seen /\ q.form = job[j].form /\ q.stage = "deleted"
        /\ Moves(j, q)
    BY <1>3, <1>7, <2>1 DEF Jobs, DeletesRow
  <2> QED
    BY <2>2 DEF Keeps, Uploading
<1> QED
  BY <1>1, <1>2, <1>4, <1>6, <1>7 DEF Serves

\* What is written and what is removed from disk is not an upload under way.
LEMMA ServesSpares ==
    ASSUME RowInv, UploadInv, NEW k \in Job, Serves(k), NEW j \in Job, Uploading(job[j])
    PROVE  /\ At(j, "stored") => job[j].form.image \in files'
           /\ row'.form # Nothing => row'.form.image # job[j].form.image
<1>1. PICK i : i = job[j].form.image
  OBVIOUS
<1>2. i \in Image /\ Alone(j, i) /\ (At(j, "stored") => i \in files)
  BY <1>1, UploadsSound DEF UploadSound
<1>3. Lacks(row.form, i) /\ Lacks(job[k].prior.form, i) /\ (k # j => Lacks(job[k].form, i))
  BY <1>2 DEF Alone
<1>4. CASE \/ Refuses(k) \/ Reads(k) \/ Counts(k) \/ Uploads(k)
  BY <1>1, <1>2, <1>3, <1>4 DEF Refuses, Reads, Counts, Uploads, Lacks
<1>5. CASE Unlinks(k)
  <2>1. job[k].prior.form # Nothing /\ row' = row
    BY <1>5, JobTyped DEF Unlinks, Unlink, At, JobSound
  <2> QED
    BY <1>1, <1>2, <1>3, <1>5, <2>1 DEF Unlinks, Unlink, Lacks
<1>6. CASE Inserts(k)
  <2>1. k # j
    BY <1>6 DEF Inserts, Uploading
  <2> QED
    BY <1>1, <1>2, <1>3, <1>6, <2>1, InsertsDone DEF Inserts, Insert, Lacks
<1>7. CASE Replaces(k)
  <2>1. k # j
    BY <1>7 DEF Replaces, Uploading
  <2>2. files' = files
    BY <1>7 DEF Replaces, Replace
  <2> QED
    BY <1>1, <1>2, <1>3, <1>7, <2>1, <2>2, ReplacesDone DEF Lacks
<1>8. CASE Rewrites(k)
  <2>1. files' = files
    BY <1>8 DEF Rewrites
  <2> QED
    BY <1>1, <1>2, <1>3, <1>8, <2>1, RewritesDone DEF Lacks
<1>9. CASE Deletes(k) \/ DeletesRow(k)
  BY <1>1, <1>2, <1>9 DEF Deletes, DeletesRow, Write
<1>10. CASE DeleteImage(k)
  <2>1. /\ job[k].prior.form # Nothing /\ row' = row
        /\ files' = files \ {job[k].prior.form.image}
    BY <1>10, DeleteImageDone, RowForms
  <2> QED
    BY <1>1, <1>2, <1>3, <2>1 DEF Lacks
<1> QED
  BY <1>4, <1>5, <1>6, <1>7, <1>8, <1>9, <1>10 DEF Serves

LEMMA UploadAlone ==
    ASSUME UploadInv, NEW j \in Job, Uploading(job[j])
    PROVE  /\ job[j].form.image \in Image /\ Alone(j, job[j].form.image)
           /\ At(j, "stored") => job[j].form.image \in files
  BY UploadsSound DEF UploadSound

LEMMA ServesUpload ==
    ASSUME RowInv, UploadInv, NEW k \in Job, Serves(k), UNCHANGED window
    PROVE  UploadInv'
<1>1. shown' = shown /\ draft' = draft
  BY DEF window
<1>2. ASSUME NEW j \in Job, Uploading(job[j])
      PROVE  /\ shown'.form # Nothing => shown'.form.image # job[j].form.image
             /\ draft'.form # Nothing => draft'.form.image # job[j].form.image
  BY <1>1, <1>2, UploadAlone DEF Alone, Lacks
<1> QED
  BY <1>2, ServesKeeps, ServesSpares, KeepsUpload

LEMMA StopKeeps ==
    ASSUME RowInv, NEW j \in Job, ReloadFails(j) \/ Listed(j) \/ ImageStored(j)
    PROVE  Keeps(j)
  BY IdleDone, DoneKeeps DEF ReloadFails, Listed, ImageStored, Moves, server

LEMMA ListsKeep ==
    ASSUME RowInv, NEW j \in Job, Load(j) \/ Reload(j)
    PROVE  Keeps(j)
<1>1. job[j] \in Jobs
  BY JobTyped
<1>2. CASE Load(j)
  <2>1. PICK q : q = [Idle EXCEPT !.op = "load", !.page = TRUE, !.seen = row, !.stage = "listed"]
    OBVIOUS
  <2>2. /\ q.prior = Absent /\ q.seen = row /\ q.form = Nothing /\ q.stage = "listed"
        /\ Moves(j, q)
    BY <1>2, <2>1 DEF Idle, Load, Moves
  <2> QED
    BY <2>2 DEF Keeps, Uploading
<1>3. CASE Reload(j)
  <2>1. PICK q : q = [job[j] EXCEPT !.stage = "listed", !.seen = row]
    OBVIOUS
  <2>2. /\ q.prior = job[j].prior /\ q.seen = row /\ q.form = job[j].form /\ q.stage = "listed"
        /\ Moves(j, q)
    BY <1>1, <1>3, <2>1 DEF Jobs, Reload, Moves, Fetched
  <2> QED
    BY <2>2 DEF Keeps, Uploading
<1> QED
  BY <1>2, <1>3

\* What the page shows next is what it showed, or read, or has uploaded.
LEMMA PageUpload ==
    ASSUME RowInv, UploadInv, NEW k \in Job, Keeps(k), row' = row, files' = files,
           \/ shown' = shown
           \/ shown' = job[k].seen,
           \/ draft' = draft \/ draft' = NoDraft
           \/ Uploading(job[k]) /\ draft'.form.image = job[k].form.image /\ job'[k] = Idle
    PROVE  UploadInv'
<1>1. ASSUME NEW j \in Job, Uploading(job[j]), j # k \/ job'[k] # Idle
      PROVE  /\ At(j, "stored") => job[j].form.image \in files'
             /\ row'.form # Nothing => row'.form.image # job[j].form.image
             /\ shown'.form # Nothing => shown'.form.image # job[j].form.image
             /\ draft'.form # Nothing => draft'.form.image # job[j].form.image
  <2>1. PICK i : i = job[j].form.image
    OBVIOUS
  <2>2. i \in Image /\ Alone(j, i) /\ (At(j, "stored") => i \in files)
    BY <1>1, <2>1, UploadAlone
  <2>3. row'.form # Nothing => row'.form.image # i
    BY <2>2 DEF Alone, Lacks
  <2>4. shown'.form # Nothing => shown'.form.image # i
    BY <2>2 DEF Alone, Lacks
  <2>5. CASE draft' = draft \/ draft' = NoDraft
    BY <2>1, <2>2, <2>3, <2>4, <2>5, NoDraftTyped, IncentivesAssumption DEF Alone, Lacks
  <2>6. CASE Uploading(job[k]) /\ draft'.form.image = job[k].form.image /\ job'[k] = Idle
    <3>1. j # k /\ Lacks(job[k].form, i) /\ job[k].form # Nothing
      BY <1>1, <2>2, <2>6, JobTyped DEF Alone, JobSound
    <3> QED
      BY <2>1, <2>2, <2>3, <2>4, <2>6, <3>1 DEF Lacks
  <2> QED
    BY <2>5, <2>6
<1>2. CASE job'[k] # Idle
  BY <1>1, <1>2, KeepsUpload
<1>3. CASE job'[k] = Idle
  <2>1. \A j \in Job \ {k} : job'[j] = job[j]
    BY DEF Keeps, Moves, RowInv
  <2>2. SUFFICES ASSUME NEW j \in Job, Uploading(job[j])' PROVE UploadSound(j)'
    BY UploadsSoundNext DEF UploadSound
  <2>3. j # k /\ job'[j] = job[j] /\ Uploading(job[j])
    BY <1>3, <2>1, <2>2 DEF Idle, Uploading
  <2>4. PICK i : i = job[j].form.image
    OBVIOUS
  <2>5. i \in Image /\ Alone(j, i)
    BY <2>3, <2>4, UploadAlone
  <2>6. Alone(j, i)'
    BY <1>1, <2>3, <2>4, <2>5, KeepsAlone
  <2>7. job'[j].form.image = i /\ (job'[j].stage = "stored" => i \in files')
    BY <1>1, <2>3, <2>4 DEF At
  <2> QED
    BY <2>5, <2>6, <2>7 DEF UploadSound, At, Alone, Lacks
<1> QED
  BY <1>2, <1>3

\* No job moves.
LEMMA EditsUpload ==
    ASSUME RowInv, UploadInv, Edits
    PROVE  UploadInv'
<1>1. SUFFICES ASSUME NEW j \in Job, Uploading(job[j])' PROVE UploadSound(j)'
  BY UploadsSoundNext DEF UploadSound
<1>2. job' = job /\ row' = row /\ files' = files /\ shown' = shown
  BY DEF Edits, server
<1>3. PICK i : i = job[j].form.image
  OBVIOUS
<1>4. i \in Image /\ Alone(j, i) /\ (At(j, "stored") => i \in files)
  BY <1>1, <1>2, <1>3, UploadAlone DEF Uploading
<1>5. draft' = draft \/ draft' = NoDraft \/ draft' = [form |-> shown.form, base |-> shown.rev]
  BY DEF Edits
<1>6. Lacks(draft'.form, i)
  BY <1>4, <1>5, NoDraftTyped, IncentivesAssumption DEF Alone, Lacks
<1>7. Alone(j, i)'
  BY <1>2, <1>4, <1>6 DEF Alone, Lacks
<1> QED
  BY <1>2, <1>3, <1>4, <1>7 DEF UploadSound, At, Alone, Lacks

LEMMA ReopenUpload ==
    ASSUME RowInv, UploadInv, Reopen
    PROVE  UploadInv'
<1>1. SUFFICES ASSUME NEW j \in Job, Uploading(job[j])' PROVE UploadSound(j)'
  BY UploadsSoundNext DEF UploadSound
<1>2. row' = row /\ files' = files /\ shown' = Absent /\ draft' = NoDraft
  BY DEF Reopen, server, Close
<1>3. \A k \in Job : /\ job'[k].form \in {job[k].form, Nothing}
                     /\ job'[k].prior \in {job[k].prior, Absent}
                     /\ job'[k].seen \in {job[k].seen, Absent}
                     /\ Uploading(job'[k]) => /\ Uploading(job[k]) /\ job'[k].form = job[k].form
                                              /\ job'[k].stage = job[k].stage
  <2>1. TAKE k \in Job
  <2>2. job[k] \in Jobs
    BY JobTyped
  <2>3. job'[k] = Idle \/ job'[k] = [job[k] EXCEPT !.page = FALSE]
    BY DEF Reopen
  <2> QED
    BY <2>2, <2>3 DEF Jobs, Idle, Uploading
<1>4. Uploading(job[j]) /\ job'[j].form = job[j].form /\ job'[j].stage = job[j].stage
  BY <1>1, <1>3 DEF Uploading
<1>5. PICK i : i = job[j].form.image
  OBVIOUS
<1>6. i \in Image /\ Alone(j, i) /\ (At(j, "stored") => i \in files)
  BY <1>4, <1>5, UploadAlone
<1>7. /\ \A form \in {row'.form, shown'.form, draft'.form} : Lacks(form, i)
      /\ \A k \in Job : Lacks(job'[k].prior.form, i) /\ Lacks(job'[k].seen.form, i)
      /\ \A k \in Job \ {j} : Lacks(job'[k].form, i)
  BY <1>2, <1>3, <1>6, NoDraftTyped, IncentivesAssumption DEF Alone, Lacks, Absent
<1>8. Alone(j, i)'
  BY <1>7 DEF Alone, Lacks
<1> QED
  BY <1>2, <1>4, <1>5, <1>6, <1>8 DEF UploadSound, At, Alone, Lacks

\* A new request takes a form that is not an upload, or a new file.
LEMMA FreshUpload ==
    ASSUME RowInv, UploadInv, NEW k \in Job, At(k, "idle"), NEW q, Moves(k, q), q \in Jobs,
           q.prior = Absent, q.seen = Absent, UNCHANGED <<row, files, shown, draft>>,
           \A j \in Job : Uploading(job[j]) => Lacks(q.form, job[j].form.image),
           Uploading(q) => /\ q.form.image \in Image /\ Unused(q.form.image) /\ q.stage = "sent"
    PROVE  UploadInv'
<1>1. SUFFICES ASSUME NEW j \in Job, Uploading(job[j])' PROVE UploadSound(j)'
  BY UploadsSoundNext DEF UploadSound
<1>2. job'[k] = q /\ \A m \in Job \ {k} : job'[m] = job[m]
  BY DEF Moves, RowInv
<1>3. CASE j # k
  <2>1. job'[j] = job[j] /\ Uploading(job[j])
    BY <1>1, <1>2, <1>3 DEF Uploading
  <2>2. PICK i : i = job[j].form.image
    OBVIOUS
  <2>3. i \in Image /\ Alone(j, i) /\ (At(j, "stored") => i \in files) /\ Lacks(q.form, i)
    BY <2>1, <2>2, UploadAlone
  <2>4. /\ \A form \in {row'.form, shown'.form, draft'.form} : Lacks(form, i)
        /\ \A m \in Job : Lacks(job'[m].prior.form, i) /\ Lacks(job'[m].seen.form, i)
        /\ \A m \in Job \ {j} : Lacks(job'[m].form, i)
    BY <1>2, <2>3 DEF Alone, Lacks, Absent
  <2>5. Alone(j, i)'
    BY <2>4 DEF Alone, Lacks
  <2> QED
    BY <2>1, <2>2, <2>3, <2>5 DEF UploadSound, At, Alone, Lacks
<1>4. CASE j = k
  <2>1. job'[j] = q /\ Uploading(q)
    BY <1>1, <1>2, <1>4 DEF Uploading
  <2>2. PICK i : i = q.form.image
    OBVIOUS
  <2>3. i \in Image /\ Unused(i) /\ q.stage = "sent"
    BY <2>1, <2>2
  <2>4. /\ \A form \in {row'.form, shown'.form, draft'.form} : Lacks(form, i)
        /\ \A m \in Job : Lacks(job'[m].prior.form, i) /\ Lacks(job'[m].seen.form, i)
        /\ \A m \in Job \ {j} : Lacks(job'[m].form, i)
    BY <1>2, <1>4, <2>3 DEF Unused, Lacks, Absent
  <2>5. Alone(j, i)'
    BY <2>4 DEF Alone, Lacks
  <2> QED
    BY <2>1, <2>2, <2>3, <2>5 DEF UploadSound, At, Alone, Lacks
<1> QED
  BY <1>3, <1>4

LEMMA SendsUpload ==
    ASSUME RowInv, WindowInv, UploadInv, NEW k \in Job, Sends(k)
    PROVE  UploadInv'
<1>1. PICK op \in {"post", "put", "delete", "refund", "act"}, form \in Form \cup {Nothing},
           base \in Nat, q \in Jobs :
          Starts(op, form, base) /\ Begins(q, op, form, base) /\ Moves(k, q)
  BY DEF Sends
<1>2. /\ q \in Jobs /\ q.op = op /\ q.form = form /\ q.prior = Absent /\ q.seen = Absent
  BY <1>1 DEF Begins
<1>3. ASSUME NEW j \in Job, Uploading(job[j]) PROVE Lacks(form, job[j].form.image)
  <2>1. PICK i : i = job[j].form.image
    OBVIOUS
  <2>2. i \in Image /\ Alone(j, i) /\ i # Nothing /\ draft.form # Nothing
    BY <1>3, <2>1, UploadAlone, RowForms, IncentivesAssumption DEF WindowInv
  <2>3. Lacks(form, i)
    BY <1>1, <2>2 DEF Starts, Alone, Lacks
  <2> QED
    BY <2>1, <2>3
<1>4. ~Uploading(q)
  BY <1>2 DEF Uploading
<1>5. At(k, "idle") /\ UNCHANGED <<row, files, shown, draft>>
  BY DEF Sends, server, window
<1> QED
  BY <1>1, <1>2, <1>3, <1>4, <1>5, FreshUpload

LEMMA SendsImageUpload ==
    ASSUME RowInv, UploadInv, NEW k \in Job, SendsImage(k)
    PROVE  UploadInv'
<1>1. PICK i \in Image, form \in Form, q \in Jobs :
          Unused(i) /\ form.image = i /\ Begins(q, "upload", form, 0) /\ Moves(k, q)
  BY DEF SendsImage
<1>2. /\ q \in Jobs /\ q.form = form /\ q.stage = "sent" /\ q.prior = Absent /\ q.seen = Absent
  BY <1>1 DEF Begins
<1>3. form.image = i /\ form # Nothing
  BY <1>1, RowForms
<1>4. ASSUME NEW j \in Job, Uploading(job[j]) PROVE Lacks(q.form, job[j].form.image)
  <2>1. Lacks(job[j].form, i) /\ job[j].form # Nothing
    BY <1>1, <1>4, JobTyped DEF Unused, JobSound
  <2> QED
    BY <1>2, <1>3, <2>1 DEF Lacks
<1>5. At(k, "idle") /\ UNCHANGED <<row, files, shown, draft>>
  BY DEF SendsImage, server, window
<1>6. q.form.image \in Image /\ Unused(q.form.image)
  BY <1>1, <1>2, <1>3 DEF Unused
<1>7. Moves(k, q)
  BY <1>1
<1> QED
  BY <1>2, <1>4, <1>5, <1>6, <1>7, FreshUpload

LEMMA UploadKept ==
    ASSUME StaffInv, StaffNext
    PROVE  UploadInv'
<1>1. RowInv /\ WindowInv /\ UploadInv
  BY DEF StaffInv
<1>2. CASE Spend /\ UNCHANGED window
  BY <1>1, <1>2 DEF Spend, window, UploadInv, Uploading, At, Lacks
<1>3. ASSUME NEW j \in Job, Serves(j), UNCHANGED window PROVE UploadInv'
  BY <1>1, <1>3, ServesUpload
<1>4. ASSUME NEW j \in Job, Load(j) \/ Reload(j) PROVE UploadInv'
  BY <1>1, <1>4, ListsKeep, PageUpload DEF Load, Reload, server, window
<1>5. ASSUME NEW j \in Job, ReloadFails(j) PROVE UploadInv'
  BY <1>1, <1>5, StopKeeps, PageUpload DEF ReloadFails, server, window
<1>6. ASSUME NEW j \in Job, Listed(j) PROVE UploadInv'
  <2>1. /\ row' = row /\ files' = files /\ shown' = job[j].seen
        /\ draft' = draft \/ draft' = NoDraft
    BY <1>6 DEF Listed, server, Close
  <2> QED
    BY <1>1, <1>6, <2>1, StopKeeps, PageUpload
<1>7. ASSUME NEW j \in Job, ImageStored(j) PROVE UploadInv'
  <2>1. /\ row' = row /\ files' = files /\ shown' = shown /\ job'[j] = Idle
    BY <1>1, <1>7 DEF ImageStored, server, RowInv
  <2>2. Uploading(job[j]) /\ draft \in [form : Form, base : Nat] /\ job[j].form.image \in Image
    BY <1>1, <1>7, JobTyped, UploadAlone DEF ImageStored, At, JobSound, Uploading, WindowInv
  <2>3. draft' = draft \/ draft'.form.image = job[j].form.image
    BY <1>7, <2>2 DEF ImageStored, Form
  <2> QED
    BY <1>1, <1>7, <2>1, <2>2, <2>3, StopKeeps, PageUpload
<1> QED
  BY <1>1, <1>2, <1>3, <1>4, <1>5, <1>6, <1>7, StaffCases, ReopenUpload, EditsUpload, SendsUpload,
     SendsImageUpload DEF Clicks

-----------------------------------------------------------------------------
(* Tables without images.                                                  *)

LEMMA PageStays ==
    ASSUME PageInv, UNCHANGED <<kind, screen>>
    PROVE  PageInv'
  BY DEF PageInv, Tables

LEMMA ServesKind ==
    ASSUME NEW j \in Job, Serves(j)
    PROVE  kind' = kind
<1>1. CASE \/ Refuses(j) \/ Reads(j) \/ Counts(j) \/ Unlinks(j) \/ Uploads(j) \/ DeletesRow(j)
  BY <1>1 DEF Refuses, Reads, Counts, Unlinks, Unlink, Uploads, DeletesRow
<1>2. CASE Inserts(j) \/ Replaces(j)
  BY <1>2 DEF Inserts, Insert, Replaces, Replace
<1>3. CASE Rewrites(j) \/ Deletes(j) \/ DeleteImage(j)
  BY <1>3 DEF Rewrites, Deletes, DeleteImage
<1> QED
  BY <1>1, <1>2, <1>3 DEF Serves

LEMMA PageKept ==
    ASSUME StaffInv, StaffNext
    PROVE  PageInv' /\ UNCHANGED <<kind, screen>>
<1>1. ASSUME NEW j \in Job, Serves(j), UNCHANGED window PROVE UNCHANGED <<kind, screen>>
  BY <1>1, ServesKind DEF window
<1>2. ASSUME NEW j \in Job, Sends(j) \/ SendsImage(j) \/ ImageStored(j) \/ Load(j) \/ Reload(j)
             \/ ReloadFails(j) \/ Listed(j)
      PROVE  UNCHANGED <<kind, screen>>
  BY <1>2 DEF Sends, SendsImage, ImageStored, Load, Reload, ReloadFails, Listed, server, window
<1>3. ASSUME Spend, UNCHANGED window PROVE UNCHANGED <<kind, screen>>
  BY <1>3 DEF Spend, window
<1>4. ASSUME Reopen PROVE UNCHANGED <<kind, screen>>
  BY <1>4 DEF Reopen, server
<1>5. ASSUME Edits PROVE UNCHANGED <<kind, screen>>
  BY <1>5 DEF Edits, server
<1>6. UNCHANGED <<kind, screen>>
  BY <1>1, <1>2, <1>3, <1>4, <1>5, StaffCases DEF Clicks
<1> QED
  BY <1>6, PageStays DEF StaffInv

\* The forms that a step shows are plain, and one request keeps what it has, or takes a
\* plain form.
LEMMA PlainJobs ==
    ASSUME RowInv, PlainInv, ~Pictured, NEW k \in Job, NEW q, Moves(k, q),
           Plain(q.form), Plain(q.prior.form), Plain(q.seen.form),
           Plain(row.form)', Plain(shown.form)', Plain(draft.form)'
    PROVE  PlainInv'
<1>1. /\ job'[k] = q /\ \A m \in Job \ {k} : job'[m] = job[m]
  BY DEF Moves, RowInv
<1> QED
  BY <1>1 DEF PlainInv, Plain

LEMMA PlainKeeps ==
    ASSUME RowInv, PlainInv, ~Pictured, NEW k \in Job, Keeps(k),
           Plain(row.form)', Plain(shown.form)', Plain(draft.form)'
    PROVE  PlainInv'
<1>1. PICK q : /\ Moves(k, q)
               /\ q.prior \in {job[k].prior, row, Absent} /\ q.seen \in {job[k].seen, row, Absent}
               /\ q.form \in {job[k].form, Nothing}
  BY DEF Keeps
<1>2. Plain(q.form) /\ Plain(q.prior.form) /\ Plain(q.seen.form)
  BY <1>1 DEF PlainInv, Plain, Absent
<1> QED
  BY <1>1, <1>2, PlainJobs

LEMMA ServesPlain ==
    ASSUME RowInv, PlainInv, ~Pictured, NEW k \in Job, Serves(k), UNCHANGED window
    PROVE  PlainInv'
<1>1. Plain(row.form) /\ Plain(shown.form) /\ Plain(draft.form) /\ Plain(job[k].form)
  BY DEF PlainInv
<1>2. Plain(shown.form)' /\ Plain(draft.form)'
  BY <1>1 DEF window, Plain
<1>3. \/ row' = row \/ row'.form = Nothing \/ row'.form = job[k].form
      \/ row.form # Nothing /\ row'.form.image = row.form.image
  <2>1. CASE \/ Refuses(k) \/ Reads(k) \/ Counts(k) \/ Unlinks(k) \/ Uploads(k) \/ DeletesRow(k)
    BY <2>1 DEF Refuses, Reads, Counts, Unlinks, Unlink, Uploads, DeletesRow
  <2>2. CASE Deletes(k) \/ DeleteImage(k)
    BY <2>2 DEF Deletes, Write, DeleteImage
  <2> QED
    BY <2>1, <2>2, InsertsDone, ReplacesDone, RewritesDone DEF Serves
<1>4. Plain(row.form)'
  BY <1>1, <1>3 DEF Plain
<1> QED
  BY <1>2, <1>4, ServesKeeps, PlainKeeps

LEMMA SendsPlain ==
    ASSUME RowInv, WindowInv, PlainInv, ~Pictured, NEW j \in Job, Sends(j)
    PROVE  PlainInv'
<1>1. PICK op \in {"post", "put", "delete", "refund", "act"}, form \in Form \cup {Nothing},
           base \in Nat, q \in Jobs :
          Starts(op, form, base) /\ Begins(q, op, form, base) /\ Moves(j, q)
  BY DEF Sends
<1>2. q.form = form /\ q.prior = Absent /\ q.seen = Absent /\ Moves(j, q)
  BY <1>1 DEF Begins
<1>3. /\ Plain(row.form) /\ Plain(shown.form) /\ Plain(draft.form)
      /\ draft.form # Nothing
  BY RowForms DEF PlainInv, WindowInv
<1>4. Plain(form)
  BY <1>1, <1>3 DEF Starts, Plain
<1>5. Plain(q.form) /\ Plain(q.prior.form) /\ Plain(q.seen.form)
  BY <1>2, <1>4 DEF Plain, Absent
<1>6. Plain(row.form)' /\ Plain(shown.form)' /\ Plain(draft.form)'
  BY <1>3 DEF Sends, server, window, Plain
<1> QED
  BY <1>2, <1>5, <1>6, PlainJobs

LEMMA PagePlain ==
    ASSUME RowInv, PlainInv, ~Pictured, NEW k \in Job, Keeps(k), row' = row,
           shown' = shown \/ shown' = job[k].seen,
           draft' = draft \/ draft' = NoDraft
    PROVE  PlainInv'
<1>1. Plain(row.form)' /\ Plain(shown.form)' /\ Plain(draft.form)'
  BY NoDraftTyped DEF PlainInv, Plain
<1> QED
  BY <1>1, PlainKeeps

LEMMA EditsPlain ==
    ASSUME PlainInv, ~Pictured, Edits
    PROVE  PlainInv'
<1>1. UNCHANGED <<row, job, shown>>
  BY DEF Edits, server
<1>2. draft' = draft \/ draft' = NoDraft \/ draft' = [form |-> shown.form, base |-> shown.rev]
  BY DEF Edits
<1> QED
  BY <1>1, <1>2, NoDraftTyped DEF PlainInv, Plain

LEMMA ReopenPlain ==
    ASSUME RowInv, PlainInv, ~Pictured, Reopen
    PROVE  PlainInv'
<1>1. row' = row /\ shown' = Absent /\ draft' = NoDraft
  BY DEF Reopen, server, Close
<1>2. \A k \in Job : /\ job'[k].form \in {job[k].form, Nothing}
                     /\ job'[k].prior \in {job[k].prior, Absent}
                     /\ job'[k].seen \in {job[k].seen, Absent}
  <2>1. TAKE k \in Job
  <2>2. job[k] \in Jobs
    BY JobTyped
  <2>3. job'[k] = Idle \/ job'[k] = [job[k] EXCEPT !.page = FALSE]
    BY DEF Reopen
  <2> QED
    BY <2>2, <2>3 DEF Jobs, Idle
<1> QED
  BY <1>1, <1>2, NoDraftTyped DEF PlainInv, Plain, Absent

LEMMA PlainKept ==
    ASSUME StaffInv, StaffNext
    PROVE  PlainInv'
<1>1. RowInv /\ WindowInv /\ PlainInv /\ kind' = kind
  BY PageKept DEF StaffInv
<1>2. SUFFICES ASSUME ~Pictured PROVE PlainInv'
  BY <1>1 DEF PlainInv, Pictured
<1>3. CASE Spend /\ UNCHANGED window
  BY <1>1, <1>2, <1>3 DEF Spend, window, PlainInv, Plain
<1>4. ASSUME NEW j \in Job, Serves(j), UNCHANGED window PROVE PlainInv'
  BY <1>1, <1>2, <1>4, ServesPlain
<1>5. ASSUME NEW j \in Job, Load(j) \/ Reload(j) PROVE PlainInv'
  BY <1>1, <1>2, <1>5, ListsKeep, PagePlain DEF Load, Reload, server, window
<1>6. ASSUME NEW j \in Job, ReloadFails(j) PROVE PlainInv'
  BY <1>1, <1>2, <1>6, StopKeeps, PagePlain DEF ReloadFails, server, window
<1>7. ASSUME NEW j \in Job, Listed(j) PROVE PlainInv'
  <2>1. /\ row' = row /\ shown' = job[j].seen
        /\ draft' = draft \/ draft' = NoDraft
    BY <1>7 DEF Listed, server, Close
  <2> QED
    BY <1>1, <1>2, <1>7, <2>1, StopKeeps, PagePlain
<1>8. ASSUME NEW j \in Job, ImageStored(j) PROVE FALSE
  <2>1. Uploading(job[j]) /\ job[j].form # Nothing
    BY <1>1, <1>8, JobTyped DEF ImageStored, At, JobSound, Uploading
  <2>2. job[j].form.image \in Image
    BY <2>1, UploadAlone DEF StaffInv
  <2> QED
    BY <1>1, <1>2, <2>1, <2>2, IncentivesAssumption DEF PlainInv, Plain
<1>9. ASSUME NEW j \in Job, SendsImage(j) PROVE FALSE
  BY <1>2, <1>9 DEF SendsImage
<1> QED
  BY <1>1, <1>2, <1>3, <1>4, <1>5, <1>6, <1>7, <1>8, <1>9, StaffCases, SendsPlain, EditsPlain,
     ReopenPlain DEF Clicks

-----------------------------------------------------------------------------
(* Which images are on disk.                                               *)

Stored(form) == form.image \in files \cup {Nothing}
Unlinking == \E k \in Job : At(k, "unlinked")
Live == Pictured /\ "image" \notin crossed /\ ~Removed

LEMMA PictureParts ==
    PictureInv <=>
        (Live => /\ row.form # Nothing => Stored(row.form) \/ Unlinking
                 /\ draft.base = row.rev => Stored(draft.form) \/ Unlinking
                 /\ \A j \in Job : Writing(job[j]) /\ job[j].base = row.rev =>
                        Stored(job[j].form) \/ Replacing(j))
  BY DEF PictureInv, Live, Stored, Unlinking

LEMMA PicturePartsNext ==
    (Live' => /\ row'.form # Nothing => Stored(row.form)' \/ Unlinking'
              /\ draft'.base = row'.rev => Stored(draft.form)' \/ Unlinking'
              /\ \A j \in Job : Writing(job[j])' /\ job'[j].base = row'.rev =>
                     Stored(job[j].form)' \/ Replacing(j)')
       => PictureInv'
  BY DEF PictureInv, Live, Stored, Unlinking

\* The row stays, files stay, and no request gives up what it has unlinked.
Quiet ==
    /\ UNCHANGED <<kind, row, crossed>> /\ files \subseteq files'
    /\ \A j \in Job : /\ Writing(job'[j]) => /\ Writing(job[j]) /\ job'[j].form = job[j].form
                                              /\ job'[j].base = job[j].base
                      /\ At(j, "unlinked") => job'[j].stage = "unlinked"

DraftFits == Live /\ draft'.base = row.rev => Stored(draft.form)' \/ Unlinking'

LEMMA QuietPicture ==
    ASSUME PictureInv, Quiet, DraftFits
    PROVE  PictureInv'
<1> USE DEF Quiet, DraftFits
<1>1. SUFFICES ASSUME Live'
               PROVE  /\ row'.form # Nothing => Stored(row.form)' \/ Unlinking'
                      /\ draft'.base = row'.rev => Stored(draft.form)' \/ Unlinking'
                      /\ \A j \in Job : Writing(job[j])' /\ job'[j].base = row'.rev =>
                             Stored(job[j].form)' \/ Replacing(j)'
  BY PicturePartsNext
<1>2. Live
  BY <1>1 DEF Live, Pictured, Removed
<1>3. Unlinking => Unlinking'
  BY DEF Unlinking, At
<1>4. \A j \in Job : Replacing(j) => Replacing(j)'
  BY DEF Replacing, At
<1>5. row'.form # Nothing => Stored(row.form)' \/ Unlinking'
  BY <1>2, <1>3, PictureParts DEF Stored
<1>6. ASSUME NEW j \in Job, Writing(job[j])', job'[j].base = row'.rev
      PROVE  Stored(job[j].form)' \/ Replacing(j)'
  <2>1. Writing(job[j]) /\ job'[j].form = job[j].form /\ job[j].base = row.rev
    BY <1>6 DEF Writing
  <2>2. Stored(job[j].form) \/ Replacing(j)
    BY <1>2, <2>1, PictureParts
  <2> QED
    BY <1>4, <2>1, <2>2 DEF Stored
<1> QED
  BY <1>2, <1>3, <1>5, <1>6

\* A new revision leaves every other form behind.
LEMMA WrittenPicture ==
    ASSUME RowInv, WindowInv, RowInv', row'.rev = row.rev + 1, draft' = draft,
           NEW j \in Job, Done(j),
           Live' /\ row'.form # Nothing => Stored(row.form)' \/ Unlinking'
    PROVE  PictureInv'
<1>1. row.rev \in Nat /\ draft.base \in Nat /\ draft.base <= row.rev
  BY DEF RowInv, Rows, WindowInv
<1>2. draft'.base # row'.rev
  BY <1>1
<1>3. ASSUME NEW k \in Job, Writing(job[k])' PROVE job'[k].base # row'.rev
  <2>1. PICK q : Moves(j, q) /\ Blank(q)
    BY DEF Done
  <2>2. job'[j] = q /\ \A m \in Job \ {j} : job'[m] = job[m]
    BY <2>1 DEF Moves, RowInv
  <2>3. k # j
    BY <1>3, <2>1, <2>2 DEF Writing, Blank
  <2>4. job[k].base \in Nat /\ job[k].base <= row.rev
    BY JobTyped DEF JobSound, Jobs
  <2> QED
    BY <1>1, <2>2, <2>3, <2>4
<1> QED
  BY <1>2, <1>3, PicturePartsNext

\* What another request has unlinked stays so.
LEMMA DoneUnlinking ==
    ASSUME RowInv, NEW j \in Job, Done(j)
    PROVE  /\ Replacing(j) => Unlinking'
           /\ Unlinking /\ ~At(j, "unlinked") => Unlinking'
  BY DEF Done, Moves, RowInv, Replacing, Unlinking, At

LEMMA InsertsPicture ==
    ASSUME RowInv, WindowInv, PictureInv, RowInv', draft' = draft, NEW j \in Job, Inserts(j)
    PROVE  PictureInv'
<1>1. /\ At(j, "sent") /\ kind' = kind /\ files' = files /\ Done(j)
      /\ "image" \notin crossed' => "image" \notin crossed
  BY InsertsDone DEF Inserts, Insert, Unannounced
<1>2. CASE row' = row
  <2>1. \A k \in Job : /\ Writing(job'[k]) => /\ Writing(job[k]) /\ job'[k].form = job[k].form
                                              /\ job'[k].base = job[k].base
                       /\ At(k, "unlinked") => job'[k].stage = "unlinked"
    BY <1>1 DEF Done, Blank, Moves, RowInv, Writing, At
  <2>2. "image" \in crossed' <=> "image" \in crossed
    BY DEF Inserts, Unannounced
  <2>3. SUFFICES ASSUME Live'
                 PROVE  /\ row'.form # Nothing => Stored(row.form)' \/ Unlinking'
                        /\ draft'.base = row'.rev => Stored(draft.form)' \/ Unlinking'
                        /\ \A k \in Job : Writing(job[k])' /\ job'[k].base = row'.rev =>
                               Stored(job[k].form)' \/ Replacing(k)'
    BY PicturePartsNext
  <2>4. Live
    BY <1>1, <1>2, <2>2, <2>3 DEF Live, Pictured, Removed
  <2>5. (Unlinking => Unlinking') /\ \A k \in Job : Replacing(k) => Replacing(k)'
    BY <2>1 DEF Unlinking, Replacing, At
  <2>6. ASSUME NEW k \in Job, Writing(job[k])', job'[k].base = row'.rev
        PROVE  Stored(job[k].form)' \/ Replacing(k)'
    <3>1. Writing(job[k]) /\ job'[k].form = job[k].form /\ job[k].base = row.rev
      BY <1>2, <2>1, <2>6 DEF Writing
    <3> QED
      BY <1>1, <2>4, <2>5, <3>1, PictureParts DEF Stored
  <2> QED
    BY <1>1, <1>2, <2>4, <2>5, <2>6, PictureParts DEF Stored
<1>3. CASE row.rev = 0 /\ ~Removed /\ row'.rev = 1 /\ row'.form = job[j].form
  <2>1. ASSUME Live' PROVE Stored(row.form)' \/ Unlinking'
    <3>1. Live
      BY <1>1, <1>3, <2>1 DEF Live, Pictured
    <3>2. Writing(job[j]) /\ job[j].base = row.rev
      BY <1>1, <1>3, JobTyped DEF Writing, Inserts, At, JobSound
    <3>3. Stored(job[j].form) \/ Replacing(j)
      BY <3>1, <3>2, PictureParts
    <3> QED
      BY <1>1, <1>3, <3>3, DoneUnlinking DEF Stored
  <2> QED
    BY <1>1, <1>3, <2>1, WrittenPicture
<1> QED
  BY <1>2, <1>3, InsertsDone

LEMMA ReplacesPicture ==
    ASSUME RowInv, WindowInv, PictureInv, RowInv', draft' = draft, NEW j \in Job, Replaces(j)
    PROVE  PictureInv'
<1>1. /\ Done(j) /\ ~Removed /\ row'.rev = row.rev + 1 /\ row'.form = job[j].form
  BY ReplacesDone
<1>2. PICK from \in {"sent", "read", "unlinked"}, announces \in BOOLEAN : Replace(j, from, announces)
  BY DEF Replaces
<1>3. /\ kind' = kind /\ files' = files /\ crossed' = crossed \cup Crosses(j, announces)
      /\ Writing(job[j])
  BY <1>2 DEF Replace, Replaces, Writing, At
<1>4. ASSUME Live' PROVE Stored(row.form)' \/ Unlinking'
  <2>1. Live /\ job[j].base = row.rev
    BY <1>1, <1>3, <1>4 DEF Live, Pictured, Crosses
  <2>2. Stored(job[j].form) \/ Replacing(j)
    BY <1>3, <2>1, PictureParts
  <2> QED
    BY <1>1, <1>3, <2>2, DoneUnlinking DEF Stored
<1> QED
  BY <1>1, <1>4, WrittenPicture

LEMMA RewritesPicture ==
    ASSUME RowInv, WindowInv, PictureInv, RowInv', draft' = draft, NEW j \in Job, Rewrites(j)
    PROVE  PictureInv'
<1>1. /\ Done(j) /\ ~Removed /\ row.form # Nothing /\ row'.rev = row.rev + 1
      /\ row'.form.image = row.form.image
  BY RewritesDone
<1>2. /\ kind' = kind /\ files' = files /\ ~At(j, "unlinked")
      /\ "image" \notin crossed' => "image" \notin crossed
  BY DEF Rewrites, Tells, At
<1>3. ASSUME Live' PROVE Stored(row.form)' \/ Unlinking'
  <2>1. Live
    BY <1>1, <1>2, <1>3 DEF Live, Pictured
  <2> QED
    BY <1>1, <1>2, <2>1, PictureParts, DoneUnlinking DEF Stored
<1> QED
  BY <1>1, <1>3, WrittenPicture

\* The image that a request unlinks is not the one it writes.
LEMMA UnlinksPicture ==
    ASSUME RowInv, PictureInv, draft' = draft, NEW j \in Job, Unlinks(j)
    PROVE  PictureInv'
<1>1. /\ UNCHANGED <<kind, row, crossed>> /\ job' = [job EXCEPT ![j].stage = "unlinked"]
      /\ files' = IF job[j].prior.form.image = job[j].form.image THEN files
                  ELSE files \ {job[j].prior.form.image}
      /\ At(j, "read") /\ job[j].op = "put"
  BY DEF Unlinks, Unlink, Step
<1>2. /\ job'[j].stage = "unlinked" /\ job'[j].form = job[j].form /\ job'[j].base = job[j].base
      /\ \A k \in Job \ {j} : job'[k] = job[k]
  BY <1>1 DEF RowInv, Jobs
<1>3. Unlinking' /\ \A k \in Job \ {j} : Replacing(k)'
  BY <1>2 DEF Unlinking, Replacing, At
<1>4. ASSUME Live', job'[j].base = row'.rev PROVE Stored(job[j].form)' \/ Replacing(j)'
  <2>1. Live /\ Writing(job[j]) /\ job[j].base = row.rev
    BY <1>1, <1>2, <1>4 DEF Live, Pictured, Removed, Writing, At
  <2>2. Stored(job[j].form) \/ Replacing(j)
    BY <2>1, PictureParts
  <2>3. Stored(job[j].form) => Stored(job[j].form)'
    BY <1>1, <1>2 DEF Stored
  <2>4. Replacing(j) => Replacing(j)'
    BY <1>2 DEF Replacing, At
  <2> QED
    BY <2>2, <2>3, <2>4
<1> QED
  BY <1>3, <1>4, PicturePartsNext

LEMMA ServesPicture ==
    ASSUME RowInv, WindowInv, UploadInv, PictureInv, RowInv', UNCHANGED window,
           NEW j \in Job, Serves(j)
    PROVE  PictureInv'
<1>1. draft' = draft /\ job[j] \in Jobs
  BY JobTyped DEF window
<1>2. ASSUME files \subseteq files', UNCHANGED <<kind, row, crossed>>,
             Live => ~At(j, "unlinked"), NEW q, Moves(j, q),
             Writing(q) => Writing(job[j]) /\ q.form = job[j].form /\ q.base = job[j].base
      PROVE  PictureInv'
  <2>1. CASE ~Live
    <3>1. ~Live'
      BY <1>2, <2>1 DEF Live, Pictured, Removed
    <3> QED
      BY <3>1, PicturePartsNext
  <2>2. CASE Live
    <3>1. job'[j] = q /\ \A m \in Job \ {j} : job'[m] = job[m]
      BY <1>2 DEF Moves, RowInv
    <3>2. \A k \in Job : /\ Writing(job'[k]) => /\ Writing(job[k]) /\ job'[k].form = job[k].form
                                                /\ job'[k].base = job[k].base
                         /\ At(k, "unlinked") => job'[k].stage = "unlinked"
      BY <1>2, <2>2, <3>1 DEF At, Writing
    <3>3. Unlinking => Unlinking'
      BY <3>2 DEF Unlinking, At
    <3>4. DraftFits
      BY <1>1, <1>2, <2>2, <3>3, PictureParts DEF Stored, DraftFits
    <3>5. Quiet
      BY <1>2, <3>2 DEF Quiet
    <3> QED
      BY <3>4, <3>5, QuietPicture
  <2> QED
    BY <2>1, <2>2
<1>3. CASE Refuses(j)
  <2>1. Live => ~At(j, "unlinked")
    <3>1. ASSUME At(j, "unlinked") PROVE Removed
      <4>1. row.form = Nothing /\ job[j].prior.rev > 0 /\ job[j].prior.rev <= row.rev /\ row.rev \in Nat
        BY <1>3, <3>1, JobTyped DEF Refuses, At, JobSound, Older, Rows
      <4>2. job[j].prior.rev \in Nat
        BY <1>1 DEF Jobs, Rows
      <4> QED
        BY <4>1, <4>2 DEF Removed
    <3> QED
      BY <3>1 DEF Live
  <2>2. PICK q : q = Idle
    OBVIOUS
  <2>3. Moves(j, q) /\ ~Writing(q)
    BY <1>3, <2>2 DEF Refuses, Idle, Writing
  <2> QED
    BY <1>2, <1>3, <2>1, <2>3 DEF Refuses
<1>4. CASE Reads(j)
  <2>1. PICK q : q = [job[j] EXCEPT !.prior = row, !.stage = "read"]
    OBVIOUS
  <2>2. /\ q.op = job[j].op /\ q.form = job[j].form /\ q.base = job[j].base /\ Moves(j, q)
        /\ q.stage = "read" /\ ~At(j, "unlinked") /\ (q.op # "delete" => At(j, "sent"))
    BY <1>1, <1>4, <2>1 DEF Jobs, Reads, At
  <2>3. Writing(q) => Writing(job[j])
    BY <2>2 DEF Writing, At
  <2> QED
    BY <1>2, <1>4, <2>2, <2>3 DEF Reads
<1>5. CASE Counts(j)
  <2>1. PICK q : q = [job[j] EXCEPT !.stage = "counted"]
    OBVIOUS
  <2>2. Moves(j, q) /\ ~Writing(q) /\ ~At(j, "unlinked")
    BY <1>1, <1>5, <2>1 DEF Jobs, Counts, At, Writing
  <2> QED
    BY <1>2, <1>5, <2>2 DEF Counts
<1>6. CASE Uploads(j)
  <2>1. PICK q : q = [job[j] EXCEPT !.stage = "stored"]
    OBVIOUS
  <2>2. Moves(j, q) /\ ~Writing(q) /\ ~At(j, "unlinked")
    BY <1>1, <1>6, <2>1 DEF Jobs, Uploads, At, Writing
  <2> QED
    BY <1>2, <1>6, <2>2 DEF Uploads
<1>7. CASE Deletes(j) \/ DeletesRow(j) \/ DeleteImage(j)
  BY <1>7, DeletesDone, DeletesRowSound, DeleteImageDone, PicturePartsNext DEF Live
<1> QED
  BY <1>1, <1>3, <1>4, <1>5, <1>6, <1>7, InsertsPicture, ReplacesPicture, RewritesPicture,
     UnlinksPicture DEF Serves

\* A form that is sent has the image of the row, or of a form as new as the row.
LEMMA SendsPicture ==
    ASSUME RowInv, WindowInv, PictureInv, NEW j \in Job, Sends(j)
    PROVE  PictureInv'
<1>1. PICK op \in {"post", "put", "delete", "refund", "act"}, form \in Form \cup {Nothing},
           base \in Nat, q \in Jobs :
          Starts(op, form, base) /\ Begins(q, op, form, base) /\ Moves(j, q)
  BY DEF Sends
<1>2. /\ q \in Jobs /\ q.op = op /\ q.form = form /\ q.base = base /\ q.stage = "sent"
  BY <1>1 DEF Begins
<1>3. job'[j] = q /\ \A m \in Job \ {j} : job'[m] = job[m]
  BY <1>1 DEF Moves, RowInv
<1>4. At(j, "idle") /\ UNCHANGED <<kind, row, crossed, files, draft>>
  BY DEF Sends, server, window
<1>5. SUFFICES ASSUME Live'
               PROVE  /\ row'.form # Nothing => Stored(row.form)' \/ Unlinking'
                      /\ draft'.base = row'.rev => Stored(draft.form)' \/ Unlinking'
                      /\ \A k \in Job : Writing(job[k])' /\ job'[k].base = row'.rev =>
                             Stored(job[k].form)' \/ Replacing(k)'
  BY PicturePartsNext
<1>6. Live
  BY <1>4, <1>5 DEF Live, Pictured, Removed
<1>7. /\ Unlinking => Unlinking' /\ Replacing(j)'
      /\ \A k \in Job : Replacing(k) => Replacing(k)'
  BY <1>3, <1>4 DEF Unlinking, Replacing, At
<1>8. CASE Writing(q) /\ base = row.rev
  <2>1. Older(shown) /\ row.rev \in Nat /\ row \in Rows /\ form \in Form
    BY <1>1, <1>2, <1>8 DEF WindowInv, RowInv, Rows, Starts, Writing
  <2>2. shown.rev = row.rev => shown = row
    BY <2>1 DEF Older
  <2>3. \/ form.image = Nothing
        \/ draft.base = row.rev /\ form.image = draft.form.image
        \/ row.form # Nothing /\ form.image = row.form.image
    BY <1>1, <1>2, <1>8, <2>2 DEF Starts, Writing, WindowInv
  <2>4. Stored(form) \/ Unlinking
    BY <1>6, <2>3, PictureParts DEF Stored
  <2> QED
    BY <1>2, <1>3, <1>4, <1>6, <1>7, <2>4, PictureParts DEF Stored, Writing
<1>9. CASE ~(Writing(q) /\ base = row.rev)
  <2>1. ASSUME NEW k \in Job, Writing(job[k])', job'[k].base = row'.rev
        PROVE  Stored(job[k].form)' \/ Replacing(k)'
    <3>1. k # j
      BY <1>2, <1>3, <1>4, <1>9, <2>1 DEF Writing
    <3>2. Writing(job[k]) /\ job'[k] = job[k] /\ job[k].base = row.rev
      BY <1>3, <1>4, <2>1, <3>1 DEF Writing
    <3> QED
      BY <1>4, <1>6, <1>7, <3>2, PictureParts DEF Stored
  <2> QED
    BY <1>4, <1>6, <1>7, <2>1, PictureParts DEF Stored
<1> QED
  BY <1>8, <1>9

\* Requests that do not write forms, as far as images go.
LEMMA OtherPicture ==
    ASSUME RowInv, PictureInv, UNCHANGED <<kind, row, crossed, files>>, NEW j \in Job,
           NEW q, Moves(j, q), ~Writing(q), ~At(j, "unlinked"),
           \/ draft' = draft \/ draft' = NoDraft
           \/ draft'.form.image \in files
    PROVE  PictureInv'
<1>1. job'[j] = q /\ \A m \in Job \ {j} : job'[m] = job[m]
  BY DEF Moves, RowInv
<1>2. \A k \in Job : /\ Writing(job'[k]) => /\ Writing(job[k]) /\ job'[k].form = job[k].form
                                            /\ job'[k].base = job[k].base
                     /\ At(k, "unlinked") => job'[k].stage = "unlinked"
  BY <1>1 DEF At
<1>3. Unlinking => Unlinking'
  BY <1>2 DEF Unlinking, At
<1>4. DraftFits
  BY <1>3, PictureParts, NoDraftTyped DEF Stored, DraftFits
<1>5. Quiet
  BY <1>2 DEF Quiet
<1> QED
  BY <1>4, <1>5, QuietPicture

LEMMA EditsPicture ==
    ASSUME RowInv, WindowInv, PictureInv, Edits
    PROVE  PictureInv'
<1>1. UNCHANGED <<kind, row, crossed, files, job, shown>>
  BY DEF Edits, server
<1>2. Unlinking => Unlinking'
  BY <1>1 DEF Unlinking, At
<1>3. Older(shown) /\ row.rev \in Nat
  BY DEF WindowInv, RowInv, Rows
<1>4. shown.rev = row.rev => shown = row
  BY <1>3 DEF Older
<1>5. DraftFits
  <2>1. CASE draft' = NoDraft
    BY <2>1, NoDraftTyped DEF Stored, DraftFits
  <2>2. CASE draft' = draft
    BY <1>1, <1>2, <2>2, PictureParts DEF Stored, DraftFits
  <2>3. CASE shown.form # Nothing /\ draft' = [form |-> shown.form, base |-> shown.rev]
    BY <1>1, <1>2, <1>4, <2>3, PictureParts DEF Stored, DraftFits
  <2> QED
    BY <2>1, <2>2, <2>3 DEF Edits
<1>6. Quiet
  BY <1>1 DEF Quiet, At, Writing
<1> QED
  BY <1>5, <1>6, QuietPicture

LEMMA ReopenPicture ==
    ASSUME RowInv, PictureInv, Reopen
    PROVE  PictureInv'
<1>1. UNCHANGED <<kind, row, crossed, files>> /\ draft' = NoDraft
  BY DEF Reopen, server, Close
<1>2. \A k \in Job : /\ Writing(job'[k]) => /\ Writing(job[k]) /\ job'[k].form = job[k].form
                                            /\ job'[k].base = job[k].base
                     /\ At(k, "unlinked") => job'[k].stage = "unlinked"
  <2>1. TAKE k \in Job
  <2>2. job[k] \in Jobs
    BY JobTyped
  <2>3. \/ job'[k] = Idle /\ job[k].stage \in {"answered", "listed", "stored"}
        \/ job'[k] = [job[k] EXCEPT !.page = FALSE]
    BY DEF Reopen
  <2> QED
    BY <2>2, <2>3 DEF Jobs, Idle, Writing, At
<1>3. DraftFits
  BY <1>1, NoDraftTyped DEF Stored, DraftFits
<1>4. Quiet
  BY <1>1, <1>2 DEF Quiet
<1> QED
  BY <1>3, <1>4, QuietPicture

LEMMA PictureKept ==
    ASSUME StaffInv, StaffNext
    PROVE  PictureInv'
<1>1. RowInv /\ WindowInv /\ UploadInv /\ PictureInv /\ RowInv'
  BY RowKept DEF StaffInv
<1>2. CASE Spend /\ UNCHANGED window
  BY <1>1, <1>2 DEF Spend, window, PictureInv, Pictured, Removed, Writing, At, Replacing
<1>3. ASSUME NEW j \in Job, Serves(j), UNCHANGED window PROVE PictureInv'
  BY <1>1, <1>3, ServesPicture
<1>4. ASSUME NEW j \in Job, NEW q, Moves(j, q), ~Writing(q), SendsImage(j) \/ Load(j) \/ Reload(j)
             \/ ReloadFails(j)
      PROVE  PictureInv'
  <2>1. UNCHANGED <<kind, row, crossed, files, draft>> /\ ~At(j, "unlinked")
    BY <1>4 DEF SendsImage, Load, Reload, ReloadFails, server, window, At
  <2> QED
    BY <1>1, <1>4, <2>1, OtherPicture
<1>5. ASSUME NEW j \in Job, SendsImage(j) PROVE PictureInv'
  <2>1. PICK form \in Form, q \in Jobs : Begins(q, "upload", form, 0) /\ Moves(j, q)
    BY <1>5 DEF SendsImage
  <2>2. ~Writing(q)
    BY <2>1 DEF Begins, Writing
  <2> QED
    BY <1>4, <1>5, <2>1, <2>2
<1>6. ASSUME NEW j \in Job, Load(j) \/ ReloadFails(j) PROVE PictureInv'
  <2>1. CASE Load(j)
    <3>1. PICK q : q = [Idle EXCEPT !.op = "load", !.page = TRUE, !.seen = row, !.stage = "listed"]
      OBVIOUS
    <3>2. Moves(j, q) /\ ~Writing(q)
      BY <2>1, <3>1 DEF Load, Moves, Idle, Writing
    <3> QED
      BY <1>4, <2>1, <3>2
  <2>2. CASE ReloadFails(j)
    <3>1. PICK q : q = Idle
      OBVIOUS
    <3>2. Moves(j, q) /\ ~Writing(q)
      BY <2>2, <3>1 DEF ReloadFails, Moves, Idle, Writing
    <3> QED
      BY <1>4, <2>2, <3>2
  <2> QED
    BY <1>6, <2>1, <2>2
<1>7. ASSUME NEW j \in Job, Reload(j) PROVE PictureInv'
  <2>1. PICK q : q = [job[j] EXCEPT !.stage = "listed", !.seen = Fetched]
    OBVIOUS
  <2>2. job[j] \in Jobs
    BY <1>1, JobTyped
  <2>3. Moves(j, q) /\ ~Writing(q)
    BY <1>7, <2>1, <2>2 DEF Reload, Moves, Jobs, Writing
  <2> QED
    BY <1>4, <1>7, <2>3
<1>8. ASSUME NEW j \in Job, Listed(j) \/ ImageStored(j) PROVE PictureInv'
  <2>1. PICK q : q = Idle
    OBVIOUS
  <2>2. /\ Moves(j, q) /\ ~Writing(q) /\ ~At(j, "unlinked")
        /\ UNCHANGED <<kind, row, crossed, files>>
    BY <1>8, <2>1 DEF Listed, ImageStored, Moves, Idle, Writing, server, At
  <2>3. draft' = draft \/ draft' = NoDraft \/ draft'.form.image \in files
    <3>1. CASE Listed(j)
      BY <3>1 DEF Listed, Close
    <3>2. CASE ImageStored(j)
      <4>1. Uploading(job[j]) /\ At(j, "stored")
        BY <1>1, <3>2, JobTyped DEF ImageStored, At, JobSound, Uploading
      <4>2. draft \in [form : Form, base : Nat] /\ job[j].form.image \in files
        BY <1>1, <4>1, UploadAlone DEF WindowInv
      <4> QED
        BY <3>2, <4>2 DEF ImageStored, Form
    <3> QED
      BY <1>8, <3>1, <3>2
  <2> QED
    BY <1>1, <2>2, <2>3, OtherPicture
<1> QED
  BY <1>1, <1>2, <1>3, <1>5, <1>6, <1>7, <1>8, StaffCases, SendsPicture, EditsPicture, ReopenPicture
     DEF Clicks

-----------------------------------------------------------------------------
(* The theorems.                                                           *)

LEMMA StaffInitially ==
    ASSUME StaffInit
    PROVE  StaffInv
<1>1. ServerInit
  BY DEF StaffInit
<1>2. row = Absent \/ row = [rev |-> 1, form |-> NewForm]
  BY <1>1 DEF ServerInit
<1>3. NewForm \in Form /\ NewForm.image = Nothing
  BY DEF NewForm, Form
<1>4. Nothing \notin Form
  BY IncentivesAssumption DEF Form
<1>5. NewForm \in Form /\ NewForm.image = Nothing /\ Nothing \notin Form /\ NewForm # Nothing
  BY <1>3, <1>4
<1>6. row \in Rows /\ (row.rev = 0 => row.form = Nothing) /\ (row.form # Nothing => row.form = NewForm)
  BY <1>2, <1>5 DEF Absent, Rows
<1>7. /\ \A j \in Job : job[j] = Idle
      /\ shown = Absent /\ draft = NoDraft /\ dialog = "none"
      /\ told = IF Announced /\ row # Absent THEN Facts(NewForm) ELSE Nothing
  BY DEF StaffInit, ServerInit
<1>8. Older(Absent) /\ JobSound(Idle)
  BY <1>6, IdleSound
<1>9. RowInv
  <2>1. ASSUME NEW j \in Job PROVE JobSound(job[j])
    BY <1>7, <1>8 DEF JobSound, Older, Writing, Uploading
  <2>2. job \in [Job -> Jobs]
    BY IdleTyped DEF StaffInit, ServerInit
  <2> QED
    BY <1>6, <2>1, <2>2 DEF RowInv
<1>10. WindowInv
  BY <1>6, <1>7, <1>8, NoDraftTyped DEF WindowInv, Rows, Older
<1>11. UploadInv
  BY <1>7 DEF UploadInv, Idle, Uploading
<1>12. ToldInv
  BY <1>2, <1>6, <1>7 DEF ToldInv, Absent
<1>13. PictureInv
  BY <1>5, <1>6, <1>7, NoDraftTyped DEF PictureInv, Idle, Writing
<1>14. PageInv
  BY DEF StaffInit, PageInv
<1>15. PlainInv
  BY <1>5, <1>6, <1>7, NoDraftTyped DEF PlainInv, Plain, Absent, Idle
<1> QED
  BY <1>9, <1>10, <1>11, <1>12, <1>13, <1>14, <1>15 DEF StaffInv

LEMMA StaffStutters ==
    ASSUME StaffInv, UNCHANGED staffVars
    PROVE  StaffInv'
<1>1. UNCHANGED <<kind, row, spent, files, told, crossed, job, shown, dialog, draft>>
  BY DEF staffVars, server, window
<1>2. RowInv'
  BY <1>1, StillRow DEF StaffInv
<1>3. WindowInv'
  BY <1>1 DEF StaffInv, WindowInv, Older
<1>4. UploadInv'
  BY <1>1 DEF StaffInv, UploadInv, Uploading, At, Lacks
<1>5. ToldInv'
  BY <1>1, ToldStays DEF StaffInv
<1>6. PictureInv'
  BY <1>1 DEF StaffInv, PictureInv, Pictured, Removed, Writing, At, Replacing
<1>7. PageInv'
  BY PageStays DEF StaffInv, staffVars, server, window
<1>8. PlainInv'
  BY <1>1 DEF StaffInv, PlainInv, Plain, Pictured
<1> QED
  BY <1>2, <1>3, <1>4, <1>5, <1>6, <1>7, <1>8 DEF StaffInv

LEMMA StaffSteps ==
    ASSUME StaffInv, [StaffNext]_staffVars
    PROVE  StaffInv'
  BY RowKept, WindowKept, PageKept, PlainKept, UploadKept, ToldKept, PictureKept, StaffStutters
     DEF StaffInv

\* What requests have read belongs to one history of the row, every upload is somebody's
\* own, and what is told and what is on disk fit the row, at every moment of every page
\* (StaffInv; the routes of admin.ts and moderator.ts with lib/uploads.ts).
THEOREM StaffCorrect == StaffSpec => []StaffInv
<1>1. StaffInit => StaffInv
  BY StaffInitially
<1>2. StaffInv /\ [StaffNext]_staffVars => StaffInv'
  BY StaffSteps
<1> QED
  BY <1>1, <1>2, PTL DEF StaffSpec

\* Consumers of incentive.* messages know the row as it is, and its image is on disk,
\* until requests have crossed (UncrossedInStep; routes/admin.ts PUT and DELETE).
THEOREM RowsInStep == StaffSpec => []UncrossedInStep
<1>1. StaffInv => UncrossedInStep
  <2>1. SUFFICES ASSUME StaffInv, row.form # Nothing PROVE UncrossedInStep
    BY DEF UncrossedInStep
  <2>2. ~Removed
    BY <2>1 DEF Removed
  <2>3. Announced /\ "told" \notin crossed => told = Facts(row.form)
    BY <2>1 DEF StaffInv, ToldInv
  <2>4. Pictured /\ "image" \notin crossed /\ ~(\E j \in Job : At(j, "unlinked"))
            => row.form.image \in files \cup {Nothing}
    BY <2>1, <2>2 DEF StaffInv, PictureInv
  <2>5. ~Pictured => row.form.image = Nothing
    BY <2>1 DEF StaffInv, PlainInv, Plain
  <2> QED
    BY <2>1, <2>3, <2>4, <2>5 DEF UncrossedInStep
<1> QED
  BY <1>1, StaffCorrect, PTL

-----------------------------------------------------------------------------
(* Handlers that are done.                                                 *)

\* The list of a handler has what it wrote when it arrives.
ShownBy(j) ==
    job[j].page /\ At(j, "listed") /\ job'[j].stage = "idle" /\ shown' # Absent
        => shown'.rev >= job[j].wrote

\* Only its own last step ends a handler that waits for its list.
LEMMA OthersWait ==
    ASSUME RowInv, NEW k \in Job, ~At(k, "listed"), NEW q, Moves(k, q)
    PROVE  \A j \in Job : ShownBy(j)
<1>1. \A j \in Job \ {k} : job'[j] = job[j]
  BY DEF Moves, RowInv
<1> QED
  BY <1>1 DEF ShownBy, At

LEMMA ServesWait ==
    ASSUME RowInv, NEW k \in Job, Serves(k)
    PROVE  \A j \in Job : ShownBy(j)
<1>1. ~At(k, "listed")
  <2>1. CASE Refuses(k) \/ Reads(k) \/ Counts(k) \/ Unlinks(k) \/ Uploads(k) \/ DeletesRow(k)
    BY <2>1 DEF Refuses, Reads, Counts, Unlinks, Unlink, Uploads, DeletesRow, At
  <2>2. CASE Inserts(k) \/ Replaces(k)
    BY <2>2 DEF Inserts, Insert, Replaces, Replace, At
  <2>3. CASE Rewrites(k) \/ Deletes(k) \/ DeleteImage(k)
    BY <2>3 DEF Rewrites, Deletes, DeleteImage, At
  <2> QED
    BY <2>1, <2>2, <2>3 DEF Serves
<1>2. PICK q : Moves(k, q)
  BY ServesKeeps DEF Keeps
<1> QED
  BY <1>1, <1>2, OthersWait

LEMMA ListedShows ==
    ASSUME RowInv, NEW k \in Job, Listed(k)
    PROVE  \A j \in Job : ShownBy(j)
<1>1. \A j \in Job \ {k} : job'[j] = job[j]
  BY DEF Listed, RowInv
<1>2. shown'.rev >= job[k].wrote
  <2>1. shown' = job[k].seen /\ job[k].wrote <= job[k].seen.rev
    BY JobTyped DEF Listed, At, JobSound
  <2>2. job[k].wrote \in Nat /\ job[k].seen.rev \in Nat
    BY JobTyped DEF Jobs, Rows
  <2> QED
    BY <2>1, <2>2
<1> QED
  BY <1>1, <1>2 DEF ShownBy, At

LEMMA StepsShow ==
    ASSUME StaffInv, StaffNext
    PROVE  \A j \in Job : ShownBy(j)
<1>1. RowInv
  BY DEF StaffInv
<1>2. CASE Spend \/ Edits
  BY <1>2 DEF Spend, Edits, ShownBy, At
<1>3. CASE Reopen
  BY <1>3 DEF Reopen, ShownBy
<1>4. ASSUME NEW k \in Job, Sends(k) PROVE \A j \in Job : ShownBy(j)
  BY <1>1, <1>4, OthersWait DEF Sends, At
<1>5. ASSUME NEW k \in Job, SendsImage(k) PROVE \A j \in Job : ShownBy(j)
  BY <1>1, <1>5, OthersWait DEF SendsImage, At
<1>6. ASSUME NEW k \in Job, Load(k) \/ Reload(k) PROVE \A j \in Job : ShownBy(j)
  <2>1. ~At(k, "listed")
    BY <1>6 DEF Load, Reload, At
  <2>2. PICK q : Moves(k, q)
    BY <1>1, <1>6, ListsKeep DEF Keeps
  <2> QED
    BY <1>1, <2>1, <2>2, OthersWait
<1>7. ASSUME NEW k \in Job, ReloadFails(k) \/ ImageStored(k) PROVE \A j \in Job : ShownBy(j)
  <2>1. ~At(k, "listed")
    BY <1>7 DEF ReloadFails, ImageStored, At
  <2>2. PICK q : Moves(k, q)
    BY <1>1, <1>7, StopKeeps DEF Keeps
  <2> QED
    BY <1>1, <2>1, <2>2, OthersWait
<1> QED
  BY <1>1, <1>2, <1>3, <1>4, <1>5, <1>6, <1>7, StaffCases, ServesWait, ListedShows DEF Clicks

\* A handler that is done has its page show what it saved, or something newer, unless
\* staff have left the page (ShowsOwnSave; handleSave of every page).
THEOREM OwnSaveShown == StaffSpec => ShowsOwnSave
<1>1. StaffInv /\ [StaffNext]_staffVars
          => [\A j \in Job :
                  job[j].page /\ At(j, "listed") /\ job'[j].stage = "idle" /\ shown' # Absent
                      => shown'.rev >= job[j].wrote]_staffVars
  BY StepsShow DEF ShownBy
<1>2. StaffSpec => [][\A j \in Job :
                  job[j].page /\ At(j, "listed") /\ job'[j].stage = "idle" /\ shown' # Absent
                      => shown'.rev >= job[j].wrote]_staffVars
  BY <1>1, StaffCorrect, PTL DEF StaffSpec
<1> QED
  BY <1>2 DEF ShowsOwnSave
=============================================================================
