------------------------------ MODULE Incentives ------------------------------
(***************************************************************************)
(* What staff edit: rewards, polls with their options, goals and auctions, *)
(* by the routes of routes/admin.ts and routes/moderator.ts, with the      *)
(* images of rewards and auctions (lib/uploads.ts) and the incentive.*     *)
(* messages.                                                               *)
(*                                                                         *)
(* The module follows one row of one table, because the hazards are        *)
(* between requests for one row.  A request is a job: a transaction, or a  *)
(* statement outside one, is one step of it, and donors and other requests *)
(* go between.  The pages that send requests are in StaffPage.             *)
(***************************************************************************)
EXTENDS Integers

CONSTANTS
    Kind,       \* the tables that the row may belong to
    Image,      \* names of uploaded files
    Nothing,       \* no image, no row, nothing told
    Job         \* bound: the requests that are under way at once

ASSUME IncentivesAssumption ==
    /\ Nothing \notin Image
    /\ Nothing \notin [value : {1, 2}, active : BOOLEAN]
    /\ Nothing \notin [value : {1, 2}, active : BOOLEAN, image : Image \cup {Nothing}]
    /\ Kind \subseteq {"reward", "poll", "option", "goal", "auction", "flag", "other"}

VARIABLES
    kind,       \* the table of the row
    row,        \* the row: a revision and what staff edit, or None when there is none
    spent,      \* claims, votes, contributions or bids refer to the row
    files,      \* the upload directory
    told,       \* what consumers of incentive.* messages know of the row
    crossed,    \* history: what requests at cross purposes have put out of step
    job         \* the requests

server == <<kind, row, spent, files, told, crossed>>

\* What a form holds: the value is the cost, the end or the target, or the label of
\* an option; an option that was removed is not active.
Form == [value : {1, 2}, active : BOOLEAN, image : Image \cup {Nothing}]
NewForm == [value |-> 1, active |-> TRUE, image |-> Nothing]
Absent == [rev |-> 0, form |-> Nothing]
Rows == [rev : Nat, form : Form \cup {Nothing}]

Pictured == kind \in {"reward", "auction"}
Announced == kind \in {"reward", "poll", "goal"}

Idle == [op |-> "none", page |-> FALSE, admin |-> FALSE, form |-> Nothing, base |-> 0,
         prior |-> Absent, wrote |-> 0, seen |-> Absent, stage |-> "idle"]

ServerTypeOK ==
    /\ kind \in Kind
    /\ row \in Rows
    /\ spent \in BOOLEAN /\ files \subseteq Image
    /\ told \in [value : {1, 2}, active : BOOLEAN] \cup {Nothing}
    /\ crossed \subseteq {"told", "image"}

Facts(form) == [value |-> form.value, active |-> form.active]

ServerInit ==
    /\ kind \in Kind
    /\ row \in {Absent, [rev |-> 1, form |-> NewForm]}
    /\ spent = FALSE /\ files = {}
    /\ told = IF Announced /\ row # Absent THEN Facts(NewForm) ELSE Nothing
    /\ crossed = {}
    /\ job = [j \in Job |-> Idle]

-----------------------------------------------------------------------------
(* Steps that routes are made of                                           *)

Route(j, op, k, admin) == job[j].op = op /\ kind = k /\ job[j].admin = admin
At(j, s) == job[j].stage = s
Step(j, s) == job' = [job EXCEPT ![j].stage = s]

\* A page waits for the answer; nobody follows that of other staff.
Answer(j, wrote) ==
    job' = [job EXCEPT ![j] = IF job[j].page
                              THEN [Idle EXCEPT !.op = job[j].op, !.page = TRUE,
                                                !.wrote = wrote, !.stage = "answered"]
                              ELSE Idle]

\* 404, 409 or 500: the page shows an error, or nobody catches it, and its dialog stays.
Refuse(j) == job' = [job EXCEPT ![j] = Idle] /\ UNCHANGED server

Write(j, form) ==
    /\ row' = [rev |-> row.rev + 1, form |-> form]
    /\ Answer(j, row.rev + 1)

\* An insert makes this row, or another one.
Insert(j) ==
    /\ At(j, "sent")
    /\ IF row = Absent THEN Write(j, job[j].form) ELSE Answer(j, 0) /\ UNCHANGED row
    /\ UNCHANGED <<kind, spent, files>>

\* findUnique, outside the transaction that writes.
ReadFirst(j) ==
    /\ At(j, "sent") /\ row.form # Nothing
    /\ job' = [job EXCEPT ![j].prior = row, ![j].stage = "read"]
    /\ UNCHANGED server

\* The old image goes before the row is written.
Unlink(j) ==
    /\ At(j, "read")
    /\ files' = IF job[j].prior.form.image = job[j].form.image THEN files
                ELSE files \ {job[j].prior.form.image}
    /\ Step(j, "unlinked")
    /\ UNCHANGED <<kind, row, spent, told, crossed>>

\* What the form of an older row, or of a row that has changed since it was read,
\* puts out of step; and what is never announced.
Crosses(j, announces) ==
    (IF Announced /\ (~announces \/ job[j].prior # row) THEN {"told"} ELSE {})
    \cup (IF Pictured /\ (job[j].base # row.rev \/ job[j].prior # row) THEN {"image"} ELSE {})

Replace(j, from, announces) ==
    /\ At(j, from) /\ row.form # Nothing
    /\ Write(j, job[j].form)
    /\ crossed' = crossed \cup Crosses(j, announces)
    /\ UNCHANGED <<kind, spent, files>>

Gone(j, from) == At(j, from) /\ row.form = Nothing /\ Refuse(j)

\* The schema keeps a row that claims, votes or contributions refer to.
Delete(j) ==
    /\ At(j, "sent")
    /\ IF row.form = Nothing \/ spent THEN Refuse(j)
       ELSE Write(j, Nothing) /\ UNCHANGED <<kind, spent, files, told, crossed>>

\* The image goes after the row.
DeleteRead(j) ==
    /\ At(j, "read")
    /\ IF row.form = Nothing \/ spent THEN Refuse(j)
       ELSE /\ row' = [rev |-> row.rev + 1, form |-> Nothing]
            /\ job' = [job EXCEPT ![j].stage = "deleted", ![j].wrote = row.rev + 1]
            /\ UNCHANGED <<kind, spent, files, told, crossed>>

DeleteImage(j) ==
    /\ At(j, "deleted") /\ files' = files \ {job[j].prior.form.image}
    /\ Answer(j, job[j].wrote)
    /\ UNCHANGED <<kind, row, spent, told, crossed>>

-----------------------------------------------------------------------------
(* Messages                                                                *)

\* incentive.created
TellsCreated(j) == told' = IF row = Absent THEN Facts(job[j].form) ELSE told

\* incentive.enabled, incentive.disabled and incentive.value_changed tell what differs
\* between the row that was read and the row as written.
Changed(known, prior, form) ==
    [value |-> IF prior.value # form.value THEN form.value ELSE known.value,
     active |-> IF prior.active # form.active THEN form.active ELSE known.active]

\* Mutant: enabling is announced, disabling is not.
TellsChanges_Enabled(j) ==
    told' = IF told = Nothing THEN Nothing
            ELSE [Changed(told, job[j].prior.form, job[j].form) EXCEPT
                      !.active = told.active \/ job[j].form.active]
TellsChanges(j) ==
    told' = IF told = Nothing THEN Nothing ELSE Changed(told, job[j].prior.form, job[j].form)

\* The routes of moderators announce nothing.
TellsNothing == UNCHANGED told
Unannounced == TellsNothing /\ crossed' = IF Announced THEN crossed \cup {"told"} ELSE crossed

-----------------------------------------------------------------------------
(* Rewards                                                                 *)

CreateReward(j) ==
    Route(j, "post", "reward", TRUE) /\ Insert(j) /\ TellsCreated(j) /\ UNCHANGED crossed

PutReward(j) ==
    /\ Route(j, "put", "reward", TRUE)
    /\ \/ ReadFirst(j) \/ Unlink(j) \/ Gone(j, "sent") \/ Gone(j, "unlinked")
       \/ Replace(j, "unlinked", TRUE) /\ TellsChanges(j)

\* The count of claims is old when the reward goes; the foreign key decides.
Count(j) ==
    /\ At(j, "sent") /\ IF spent THEN Refuse(j) ELSE Step(j, "counted") /\ UNCHANGED server
ReadImage(j) ==
    /\ At(j, "counted") /\ job' = [job EXCEPT ![j].prior = row, ![j].stage = "read"]
    /\ UNCHANGED server

DeleteReward(j) ==
    /\ Route(j, "delete", "reward", TRUE)
    /\ Count(j) \/ ReadImage(j) \/ DeleteRead(j) \/ DeleteImage(j)

ModeratorCreateReward(j) == Route(j, "post", "reward", FALSE) /\ Insert(j) /\ Unannounced

ModeratorPutReward(j) ==
    /\ Route(j, "put", "reward", FALSE)
    /\ \/ ReadFirst(j) \/ Unlink(j) \/ Gone(j, "sent") \/ Gone(j, "unlinked")
       \/ Replace(j, "unlinked", FALSE) /\ TellsNothing

ModeratorDeleteReward(j) ==
    /\ Route(j, "delete", "reward", FALSE)
    /\ Count(j) \/ ReadImage(j) \/ DeleteRead(j) \/ DeleteImage(j)

-----------------------------------------------------------------------------
(* Polls and their options                                                 *)

CreatePoll(j) ==
    Route(j, "post", "poll", TRUE) /\ Insert(j) /\ TellsCreated(j) /\ UNCHANGED crossed

PutPoll(j) ==
    /\ Route(j, "put", "poll", TRUE)
    /\ \/ ReadFirst(j) \/ Gone(j, "sent") \/ Gone(j, "read")
       \/ Replace(j, "read", TRUE) /\ TellsChanges(j)

DeletePoll(j) == Route(j, "delete", "poll", TRUE) /\ Delete(j)

ModeratorCreatePoll(j) == Route(j, "post", "poll", FALSE) /\ Insert(j) /\ Unannounced

ModeratorPutPoll(j) ==
    /\ Route(j, "put", "poll", FALSE)
    /\ Gone(j, "sent") \/ (Replace(j, "sent", FALSE) /\ TellsNothing)

ModeratorDeletePoll(j) == Route(j, "delete", "poll", FALSE) /\ Delete(j)

AddOption(j, admin) == Route(j, "post", "option", admin) /\ Insert(j) /\ Unannounced

\* A patch changes the label and leaves the status alone.
PatchOption(j, admin) ==
    /\ Route(j, "put", "option", admin)
    /\ \/ Gone(j, "sent")
       \/ /\ At(j, "sent") /\ row.form # Nothing
          /\ Write(j, [row.form EXCEPT !.value = job[j].form.value])
          /\ UNCHANGED <<kind, spent, files, told, crossed>>

\* Votes are refunded (module Wallet) and the option is kept, removed.
RemoveOption(j) ==
    /\ Route(j, "delete", "option", TRUE)
    /\ \/ Gone(j, "sent")
       \/ /\ At(j, "sent") /\ row.form # Nothing
          /\ Write(j, [row.form EXCEPT !.active = FALSE])
          /\ UNCHANGED <<kind, spent, files, told, crossed>>

ModeratorDeleteOption(j) == Route(j, "delete", "option", FALSE) /\ Delete(j)

-----------------------------------------------------------------------------
(* Goals                                                                   *)

CreateGoal(j) ==
    Route(j, "post", "goal", TRUE) /\ Insert(j) /\ TellsCreated(j) /\ UNCHANGED crossed

PutGoal(j) ==
    /\ Route(j, "put", "goal", TRUE)
    /\ \/ ReadFirst(j) \/ Gone(j, "sent") \/ Gone(j, "read")
       \/ Replace(j, "read", TRUE) /\ TellsChanges(j)

\* Contributions are refunded (module Wallet) and the goal is kept, disabled; that is
\* told when the goal was enabled as it was read.
RetireGoal(j) ==
    /\ Route(j, "delete", "goal", TRUE)
    /\ \/ ReadFirst(j) \/ Gone(j, "sent") \/ Gone(j, "read")
       \/ /\ At(j, "read") /\ row.form # Nothing
          /\ Write(j, [row.form EXCEPT !.active = FALSE])
          /\ told' = IF told # Nothing /\ job[j].prior.form.active THEN [told EXCEPT !.active = FALSE]
                     ELSE told
          /\ crossed' = crossed \cup Crosses(j, TRUE)
          /\ UNCHANGED <<kind, spent, files>>

ModeratorCreateGoal(j) == Route(j, "post", "goal", FALSE) /\ Insert(j) /\ Unannounced

ModeratorPutGoal(j) ==
    /\ Route(j, "put", "goal", FALSE)
    /\ Gone(j, "sent") \/ (Replace(j, "sent", FALSE) /\ TellsNothing)

ModeratorDeleteGoal(j) == Route(j, "delete", "goal", FALSE) /\ Delete(j)

\* POST /polls/options/:id/refund and /goals/:id/refund: the money is in Wallet.
Refund(j) ==
    /\ job[j].op = "refund" /\ At(j, "sent")
    /\ IF row.form = Nothing THEN Refuse(j)
       ELSE Write(j, row.form) /\ UNCHANGED <<kind, spent, files, told, crossed>>

-----------------------------------------------------------------------------
(* Auctions, as far as their forms and images go (module Auction has the rest) *)

CreateAuction(j) == Route(j, "post", "auction", TRUE) /\ Insert(j) /\ Unannounced

PutAuction(j) ==
    /\ Route(j, "put", "auction", TRUE)
    /\ \/ ReadFirst(j) \/ Unlink(j) \/ Gone(j, "sent") \/ Gone(j, "unlinked")
       \/ Replace(j, "unlinked", FALSE) /\ TellsNothing

ModeratorCreateAuction(j) == Route(j, "post", "auction", FALSE) /\ Insert(j) /\ Unannounced

ModeratorPutAuction(j) ==
    /\ Route(j, "put", "auction", FALSE)
    /\ \/ ReadFirst(j) \/ Unlink(j) \/ Gone(j, "sent") \/ Gone(j, "unlinked")
       \/ Replace(j, "unlinked", FALSE) /\ TellsNothing

DeleteAuction(j) ==
    /\ Route(j, "delete", "auction", TRUE)
    /\ Count(j) \/ ReadImage(j) \/ DeleteRead(j) \/ DeleteImage(j)

-----------------------------------------------------------------------------
(* Feature flags and the rest                                              *)

CreateFlag(j) ==
    /\ Route(j, "post", "flag", TRUE)
    /\ (At(j, "sent") /\ Refuse(j)) \/ (Insert(j) /\ Unannounced)

PatchFlag(j) ==
    /\ Route(j, "put", "flag", TRUE)
    /\ Gone(j, "sent") \/ (Replace(j, "sent", FALSE) /\ TellsNothing)

DeleteFlag(j) == Route(j, "delete", "flag", TRUE) /\ Delete(j)

\* The routes of other modules, which may refuse, and those of banners and blocked
\* words.
OtherRoute(j) ==
    /\ kind = "other" \/ job[j].op = "act"
    /\ \/ At(j, "sent") /\ Refuse(j)
       \/ job[j].op = "post" /\ Insert(j) /\ Unannounced
       \/ job[j].op = "put" /\ Replace(j, "sent", FALSE) /\ TellsNothing
       \/ job[j].op = "delete" /\ Delete(j)
       \/ /\ job[j].op = "act" /\ At(j, "sent") /\ row.form # Nothing /\ Write(j, row.form)
          /\ UNCHANGED <<kind, spent, files, told, crossed>>

\* POST /uploads stores under a new name.
Upload(j) ==
    /\ job[j].op = "upload" /\ At(j, "sent")
    /\ \/ Refuse(j)
       \/ /\ files' = files \cup {job[j].form.image} /\ Step(j, "stored")
          /\ UNCHANGED <<kind, row, spent, told, crossed>>

\* A claim, a vote, a contribution or a bid of a donor.
Spend ==
    /\ ~spent /\ row.form # Nothing /\ row.form.active
    /\ spent' = TRUE
    /\ UNCHANGED <<kind, row, files, told, crossed, job>>

ServerNext ==
    \/ \E j \in Job :
           \/ CreateReward(j) \/ PutReward(j) \/ DeleteReward(j)
           \/ ModeratorCreateReward(j) \/ ModeratorPutReward(j) \/ ModeratorDeleteReward(j)
           \/ CreatePoll(j) \/ PutPoll(j) \/ DeletePoll(j)
           \/ ModeratorCreatePoll(j) \/ ModeratorPutPoll(j) \/ ModeratorDeletePoll(j)
           \/ \E admin \in BOOLEAN : AddOption(j, admin) \/ PatchOption(j, admin)
           \/ RemoveOption(j) \/ ModeratorDeleteOption(j)
           \/ CreateGoal(j) \/ PutGoal(j) \/ RetireGoal(j)
           \/ ModeratorCreateGoal(j) \/ ModeratorPutGoal(j) \/ ModeratorDeleteGoal(j)
           \/ Refund(j) \/ CreateAuction(j) \/ PutAuction(j) \/ DeleteAuction(j)
           \/ ModeratorCreateAuction(j) \/ ModeratorPutAuction(j)
           \/ CreateFlag(j) \/ PatchFlag(j) \/ DeleteFlag(j) \/ OtherRoute(j) \/ Upload(j)
    \/ Spend

-----------------------------------------------------------------------------
(* Properties                                                              *)

\* Whoever follows the incentive.* messages knows the state and the value of the row,
\* and its image is on disk but for a request that is about to replace it, until a
\* request that had read an older row, or a moderator, who announces nothing, has
\* written it (routes/admin.ts PUT and DELETE).
UncrossedInStep ==
    row.form # Nothing =>
        /\ Announced /\ "told" \notin crossed => told = Facts(row.form)
        /\ "image" \notin crossed /\ ~(\E j \in Job : At(j, "unlinked"))
               => row.form.image \in files \cup {Nothing}

-----------------------------------------------------------------------------
(* What these rest on                                                      *)

\* Nothing comes after a row that was removed.
Removed == row.rev > 0 /\ row.form = Nothing

\* What was read of the row is older than the row, or the row itself.
Older(old) ==
    /\ old \in Rows /\ old.rev <= row.rev
    /\ old.rev = row.rev \/ (old.rev > 0 /\ old.form = Nothing) => old = row

Jobs ==
    [op : {"none", "load", "post", "put", "delete", "refund", "act", "upload"},
     page : BOOLEAN, admin : BOOLEAN, form : Form \cup {Nothing}, base : Nat,
     prior : Rows, wrote : Nat, seen : Rows,
     stage : {"idle", "sent", "counted", "read", "unlinked", "deleted", "stored", "answered",
              "listed"}]

Writing(q) == q.op \in {"post", "put"} /\ q.stage \in {"sent", "read", "unlinked"}
Uploading(q) == q.op = "upload" /\ q.stage \in {"sent", "stored"}

\* What a request has read, wrote and lists belongs to one history of the row.
JobSound(q) ==
    /\ q \in Jobs /\ Older(q.prior) /\ Older(q.seen)
    /\ q.base <= row.rev /\ q.wrote <= row.rev
    /\ q.stage = "listed" => q.wrote <= q.seen.rev
    /\ Writing(q) \/ Uploading(q) => q.form # Nothing
    /\ Writing(q) /\ q.op = "post" => q.base = 0
    /\ q.stage \in {"read", "unlinked", "deleted"} => q.prior.rev > 0
    /\ q.stage = "unlinked" => q.op = "put"
    /\ q.stage = "stored" => q.op = "upload"
    /\ q.op = "put" /\ q.stage \in {"read", "unlinked"} => q.prior.form # Nothing
    /\ q.op = "delete" /\ q.stage \in {"sent", "counted"} => row.rev > 0
    /\ q.stage = "deleted" => Removed /\ q.prior.form # Nothing

RowInv ==
    /\ row \in Rows /\ (row.rev = 0 => row.form = Nothing)
    /\ job \in [Job -> Jobs] /\ \A j \in Job : JobSound(job[j])

ToldInv ==
    Announced /\ "told" \notin crossed /\ row.form # Nothing => told = Facts(row.form)

\* Another request is about to replace the image it has unlinked.
Replacing(j) == \E k \in Job \ {j} : At(k, "unlinked")
=============================================================================
