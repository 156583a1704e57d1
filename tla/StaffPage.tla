------------------------------ MODULE StaffPage ------------------------------
(***************************************************************************)
(* The pages of staff (pages/admin, pages/moderator, components/           *)
(* EventsManager.tsx, components/ChannelsManager.tsx) over the routes of   *)
(* Incentives.  A page holds a list, the form of a dialog, and handlers:   *)
(* each sends a request, reads the list again and then closes its dialog.  *)
(* Nothing disables a button while a handler runs, so handlers overlap,    *)
(* and so do other staff, whose requests have no page here.                *)
(***************************************************************************)
EXTENDS Incentives

CONSTANTS
    Page,           \* the pages
    MaxRequests     \* bound: requests that are sent

ASSUME StaffAssumption == MaxRequests \in Nat

VARIABLES
    screen,           \* the page that is open
    shown,          \* its list: the row as the last answer had it
    dialog,         \* "none", "create", "edit", or "label" for the name of an option
    draft,          \* the form, and the revision it started from
    sent            \* requests so far

window == <<screen, shown, dialog, draft>>
staffVars == <<server, job, window, sent>>

NoDraft == [form |-> NewForm, base |-> 0]

StaffTypeOK ==
    /\ ServerTypeOK
    /\ screen \in Page /\ dialog \in {"none", "create", "edit", "label"}
    /\ shown \in [rev : Nat, form : Form \cup {Nothing}]
    /\ draft \in [form : Form, base : Nat]
    /\ sent \in 0..MaxRequests

Moderators == {"ModeratorRewards", "ModeratorPolls", "ModeratorGoals", "ModeratorAuctions",
               "ModeratorDonations", "ModeratorClaims"}
IsAdmin == screen \notin Moderators

\* The tables that a page edits.
Tables ==
    [AdminRewards |-> {"reward"}, ModeratorRewards |-> {"reward"},
     AdminPolls |-> {"poll", "option"}, ModeratorPolls |-> {"poll", "option"},
     AdminGoals |-> {"goal"}, ModeratorGoals |-> {"goal"},
     AdminAuctions |-> {"auction"}, ModeratorAuctions |-> {"auction"},
     AdminFeatureFlags |-> {"flag"}]

StaffInit ==
    /\ ServerInit
    /\ screen \in Page
    /\ kind \in (IF screen \in DOMAIN Tables THEN Tables[screen] ELSE {"other"})
    /\ shown = Absent /\ dialog = "none" /\ draft = NoDraft /\ sent = 0

-----------------------------------------------------------------------------
(* Requests                                                                *)

\* What can be typed: one field at a time changes; images come from an upload only.
Typed(form) ==
    {form, [form EXCEPT !.image = Nothing]}
    \cup (IF kind \in {"auction", "other"} THEN {} ELSE {[form EXCEPT !.value = 3 - form.value]})
    \cup (IF kind \in {"reward", "poll", "goal"} THEN {[form EXCEPT !.active = ~form.active]} ELSE {})

Send(j, op, byPage, admin, form, base) ==
    /\ At(j, "idle") /\ sent < MaxRequests /\ sent' = sent + 1
    /\ job' = [job EXCEPT ![j] = [Idle EXCEPT !.op = op, !.page = byPage, !.admin = admin,
                                              !.form = form, !.base = base, !.stage = "sent"]]
    /\ UNCHANGED server

Submit(j, op, form, base) == Send(j, op, TRUE, IsAdmin, form, base)

Running(op) == \E j \in Job : job[j].op = op /\ job[j].page /\ ~At(j, "idle")

\* Any other staff, with a form that shows the row as it is.
OtherStaff(j) ==
    /\ row.form # Nothing
    /\ \E admin \in BOOLEAN, op \in {"put", "delete"}, f \in Typed(row.form) :
           /\ op = "delete" => f = row.form
           /\ Send(j, op, FALSE, admin, f, row.rev)
    /\ UNCHANGED window

-----------------------------------------------------------------------------
(* Handlers                                                                *)

\* Mutant: the list comes from a cache.
Fetched_Cached == shown
Fetched == row

\* A form starts anew whenever it is opened.
Close == dialog' = "none" /\ draft' = NoDraft

\* The list is read after the answer: reload().  The name of an option is closed
\* before that.
Reload(j) ==
    /\ job[j].page /\ At(j, "answered")
    /\ job' = [job EXCEPT ![j].stage = "listed", ![j].seen = Fetched]
    /\ dialog' = IF dialog = "label" /\ job[j].op = "put" THEN "none" ELSE dialog
    /\ UNCHANGED <<server, screen, shown, draft, sent>>

\* The reload fails after the change was made.
ReloadFails(j) ==
    /\ job[j].page /\ At(j, "answered")
    /\ job' = [job EXCEPT ![j] = Idle]
    /\ UNCHANGED <<server, window, sent>>

\* The first list, all there is on the pages of pledges and of claims; donations are
\* listed again when the filter changes.
Load(j) ==
    /\ shown = Absent \/ screen = "AdminDonations"
    /\ At(j, "idle") /\ sent < MaxRequests /\ sent' = sent + 1
    /\ job' = [job EXCEPT ![j] = [Idle EXCEPT !.op = "load", !.page = TRUE, !.seen = row,
                                              !.stage = "listed"]]
    /\ UNCHANGED <<server, window>>

\* The list arrives; the dialog of a handler that has one is closed, whichever
\* dialog is open by then.
Listed(j) ==
    /\ job[j].page /\ At(j, "listed")
    /\ shown' = job[j].seen
    /\ job' = [job EXCEPT ![j] = Idle]
    /\ UNCHANGED <<server, screen, sent>>
    /\ IF job[j].op \in {"post", "put"} /\ kind # "option" THEN Close
       ELSE UNCHANGED <<dialog, draft>>

OpenCreate ==
    /\ dialog' = "create" /\ draft' = NoDraft
    /\ UNCHANGED <<server, job, screen, shown, sent>>

OpenEdit ==
    /\ shown.form # Nothing
    /\ dialog' = "edit" /\ draft' = [form |-> shown.form, base |-> shown.rev]
    /\ UNCHANGED <<server, job, screen, shown, sent>>

CloseDialog ==
    /\ dialog # "none" /\ Close
    /\ UNCHANGED <<server, job, screen, shown, sent>>

Save(j) ==
    /\ \/ dialog = "create" /\ \E f \in Typed(draft.form) : Submit(j, "post", f, 0)
       \/ dialog = "edit" /\ \E f \in Typed(draft.form) : Submit(j, "put", f, draft.base)
    /\ UNCHANGED window

Dialogs(j) == OpenCreate \/ OpenEdit \/ CloseDialog \/ Save(j)

\* Staff go to another page and back: requests go on and nobody waits for them.
Reopen ==
    /\ shown' = Absent /\ Close
    /\ job' = [j \in Job |-> IF job[j].stage \in {"answered", "listed", "stored"}
                             THEN Idle ELSE [job[j] EXCEPT !.page = FALSE]]
    /\ UNCHANGED <<server, screen, sent>>

\* Delete, after a confirmation.
Remove(j) ==
    /\ shown.form # Nothing /\ Submit(j, "delete", Nothing, shown.rev)
    /\ UNCHANGED window

\* Any other request about a row of the list: a status, a toggle, a refund.
Act(j, op) ==
    /\ shown.form # Nothing /\ Submit(j, op, Nothing, shown.rev)
    /\ UNCHANGED window

\* Names are random: no form, row or list has the name of a new file.
Lacks(form, i) == form # Nothing => form.image # i
Unused(i) ==
    /\ \A form \in {row.form, shown.form, draft.form} : Lacks(form, i)
    /\ \A k \in Job : \A form \in {job[k].form, job[k].prior.form, job[k].seen.form} : Lacks(form, i)

\* An upload ends in the form, whichever form of its page that is by then.
SendImage(j) ==
    /\ dialog \in {"create", "edit"} /\ ~Running("upload")
    /\ \E i \in Image \ files :
           /\ Unused(i)
           /\ Submit(j, "upload", [NewForm EXCEPT !.image = i], 0)
    /\ UNCHANGED window

ImageStored(j) ==
    /\ At(j, "stored")
    /\ draft' = IF dialog = "none" \/ ~job[j].page THEN draft
                ELSE [draft EXCEPT !.form.image = job[j].form.image]
    /\ job' = [job EXCEPT ![j] = Idle]
    /\ UNCHANGED <<server, screen, shown, dialog, sent>>

\* An option is added under its poll, and its label edited in place.
AddLabel(j) ==
    /\ kind = "option" /\ \E f \in Typed(NewForm) : Submit(j, "post", f, 0)
    /\ UNCHANGED window

EditLabel ==
    /\ kind = "option" /\ shown.form # Nothing /\ dialog' = "label"
    /\ UNCHANGED <<server, job, screen, shown, draft, sent>>

SaveLabel(j) ==
    /\ dialog = "label" /\ shown.form # Nothing /\ \E f \in Typed(shown.form) : Submit(j, "put", f, shown.rev)
    /\ UNCHANGED window

-----------------------------------------------------------------------------
(* The pages                                                               *)

\* A save waits for the upload.
AdminRewards(j) ==
    /\ screen = "AdminRewards"
    /\ \/ OpenCreate \/ OpenEdit \/ CloseDialog \/ Remove(j) \/ SendImage(j) \/ ImageStored(j)
       \/ ~Running("upload") /\ Save(j)

ModeratorRewards(j) ==
    /\ screen = "ModeratorRewards"
    /\ \/ OpenCreate \/ OpenEdit \/ CloseDialog \/ Remove(j) \/ SendImage(j) \/ ImageStored(j)
       \/ ~Running("upload") /\ Save(j)

AdminPolls(j) ==
    /\ screen = "AdminPolls"
    /\ IF kind = "poll" THEN Dialogs(j) \/ Remove(j)
       ELSE AddLabel(j) \/ EditLabel \/ SaveLabel(j) \/ CloseDialog \/ Remove(j) \/ Act(j, "refund")

\* Entries that donors wrote are approved or rejected here.
ModeratorPolls(j) ==
    /\ screen = "ModeratorPolls"
    /\ IF kind = "poll" THEN Dialogs(j) \/ Remove(j)
       ELSE AddLabel(j) \/ EditLabel \/ SaveLabel(j) \/ CloseDialog \/ Remove(j) \/ Act(j, "act")

AdminGoals(j) == screen = "AdminGoals" /\ (Dialogs(j) \/ Remove(j) \/ Act(j, "refund"))

ModeratorGoals(j) == screen = "ModeratorGoals" /\ (Dialogs(j) \/ Remove(j))

\* A save does not wait for the upload.
AdminAuctions(j) ==
    /\ screen = "AdminAuctions"
    /\ Dialogs(j) \/ Remove(j) \/ SendImage(j) \/ ImageStored(j) \/ Act(j, "act")

ModeratorAuctions(j) ==
    /\ screen = "ModeratorAuctions"
    /\ Dialogs(j) \/ SendImage(j) \/ ImageStored(j) \/ Act(j, "act")

EventsManager(j) == screen = "EventsManager" /\ (Dialogs(j) \/ Act(j, "act"))

ChannelsManager(j) == screen = "ChannelsManager" /\ (Dialogs(j) \/ Act(j, "act"))

\* A secret is rotated, or a Destination paused; pings and requeues read no list.
AdminDestinations(j) ==
    screen = "AdminDestinations" /\ (Dialogs(j) \/ Remove(j) \/ Act(j, "act"))

\* A status, an assignment, a claim.
AdminDonations(j) == screen = "AdminDonations" /\ Act(j, "act")

\* Moderated, hidden.
ModeratorDonations(j) == screen = "ModeratorDonations" /\ Act(j, "act")

\* A flag is off when it is made, and the list has its switch.
AdminFeatureFlags(j) ==
    /\ screen = "AdminFeatureFlags"
    /\ \/ Remove(j)
       \/ Submit(j, "post", NewForm, 0) /\ UNCHANGED window
       \/ /\ shown.form # Nothing /\ UNCHANGED window
          /\ Submit(j, "put", [shown.form EXCEPT !.value = 3 - shown.form.value], shown.rev)

\* One handler at a time, which shows the answer itself.
AdminBroadcast(j) ==
    /\ screen = "AdminBroadcast"
    /\ \/ ~Running("put") /\ ~Running("delete") /\ Remove(j)
       \/ /\ ~Running("put") /\ ~Running("delete") /\ UNCHANGED window
          /\ \E f \in Typed(NewForm) : Submit(j, "put", f, shown.rev)

AdminBlockedWords(j) ==
    /\ screen = "AdminBlockedWords"
    /\ Remove(j) \/ (Submit(j, "post", NewForm, 0) /\ UNCHANGED window)

-----------------------------------------------------------------------------
StaffNext ==
    \/ ServerNext /\ UNCHANGED <<window, sent>>
    \/ Reopen
    \/ \E j \in Job :
           \/ OtherStaff(j) \/ Load(j) \/ Reload(j) \/ ReloadFails(j) \/ Listed(j)
           \/ AdminRewards(j) \/ ModeratorRewards(j) \/ AdminPolls(j) \/ ModeratorPolls(j)
           \/ AdminGoals(j) \/ ModeratorGoals(j) \/ AdminAuctions(j) \/ ModeratorAuctions(j)
           \/ EventsManager(j) \/ ChannelsManager(j) \/ AdminDestinations(j)
           \/ AdminDonations(j) \/ ModeratorDonations(j)
           \/ AdminFeatureFlags(j) \/ AdminBroadcast(j) \/ AdminBlockedWords(j)

StaffSpec == StaffInit /\ [][StaffNext]_staffVars

-----------------------------------------------------------------------------
(* Properties                                                              *)

\* When a handler is done and its dialog closes, the list has what it saved, or
\* something newer, whatever other handlers and other staff do, unless staff have left
\* the page (handleSave of every page: request, reload, close).
ShowsOwnSave ==
    [][\A j \in Job :
           job[j].page /\ At(j, "listed") /\ job'[j].stage = "idle" /\ shown' # Absent
               => shown'.rev >= job[j].wrote]_staffVars

\* Forms are as old as what they were opened on; a new one starts from nothing.
WindowInv ==
    /\ Older(shown) /\ draft \in [form : Form, base : Nat] /\ draft.base <= row.rev
    /\ dialog = "create" => draft.base = 0

\* The file of an upload is nobody else's yet.
UploadInv ==
    \A j \in Job : Uploading(job[j]) =>
        LET i == job[j].form.image
        IN  /\ i \in Image /\ (At(j, "stored") => i \in files)
            /\ \A form \in {row.form, shown.form, draft.form} : Lacks(form, i)
            /\ \A k \in Job : Lacks(job[k].prior.form, i) /\ Lacks(job[k].seen.form, i)
            /\ \A k \in Job \ {j} : Lacks(job[k].form, i)

\* The images of the row, and of the forms that may still replace it without crossing
\* anybody, are on disk, but for a request that has unlinked one and is about to write.
PictureInv ==
    Pictured /\ "image" \notin crossed /\ ~Removed =>
        LET Stored(form) == form.image \in files \cup {Nothing}
            Unlinking == \E k \in Job : At(k, "unlinked")
        IN  /\ row.form # Nothing => Stored(row.form) \/ Unlinking
            /\ draft.base = row.rev => Stored(draft.form) \/ Unlinking
            /\ \A j \in Job : Writing(job[j]) /\ job[j].base = row.rev =>
                   Stored(job[j].form) \/ Replacing(j)

\* A page edits its own tables, and the rows and forms of other tables than those of
\* rewards and auctions have no images.
PageInv == screen \in DOMAIN Tables => kind \in Tables[screen]

Plain(form) == form # Nothing => form.image = Nothing

PlainInv ==
    ~Pictured =>
        /\ \A form \in {row.form, shown.form, draft.form} : Plain(form)
        /\ \A j \in Job :
               Plain(job[j].form) /\ Plain(job[j].prior.form) /\ Plain(job[j].seen.form)

\* With them UncrossedInStep and ShowsOwnSave are inductive.
StaffInv ==
    RowInv /\ WindowInv /\ PageInv /\ PlainInv /\ UploadInv /\ ToldInv /\ PictureInv
=============================================================================
