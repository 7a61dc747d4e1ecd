---------------------------- MODULE AdminDetails ----------------------------
(***************************************************************************)
(* The page of one service request in the administrators' application,     *)
(* above the request's row.                                                *)
(*                                                                         *)
(* The page shows the row as some answer told it, offers what that allows, *)
(* posts a change and, once the change is acknowledged, reads the row      *)
(* again.  No post names the version it was decided on, and an answer is   *)
(* shown whenever it comes.  The backend is the row's abstract specifica-  *)
(* tion: it takes a post by a versioned write, or refuses it.              *)
(*                                                                         *)
(* The other data of the page (surveys, timeline, ...) are read in the     *)
(* same way and decide nothing.                                            *)
(***************************************************************************)
EXTENDS RequestRow

CONSTANTS
  Reads,            \* bound: reads of the request under way at once
  Posts,            \* bound: posts under way at once
  NoPost,           \* a read no post waits for
  OfferedTargets,   \* bound: the statuses the administrator picks
  OutsideTargets    \* bound: the statuses other handlers move the request to

\* The assignment's modal, the status' modal and the notes.
Forms == {"assign", "status", "note"}

ASSUME NoPostAssumption == NoPost \notin Posts

VARIABLES
  shown,        \* the request the page shows
  isError,      \* the page shows an error instead
  chosen,       \* the status the status' modal keeps as its target, if any
  reads,        \* reads under way
  posts,        \* posts under way, until the page has read the row again
  own,          \* auxiliary: the newest version acknowledged to this page
  overlapping   \* auxiliary: the last read was begun beside another one

detailsVars == <<shown, isError, chosen, reads, posts, own, overlapping>>

Snapshots == [ status : RequestStatuses, vendor : Assignable, version : 0..MaxVersion ]

\* request = null.
NotLoaded == [ status |-> "CREATED", vendor |-> NoVendor, version |-> 0 ]
RowNow == [ status |-> status, vendor |-> vendor, version |-> version ]

ReadStates == [ at : {"none", "sent", "answered"}, row : Snapshots,
                post : Posts \cup {NoPost} ]

NoRead == [ at |-> "none", row |-> NotLoaded, post |-> NoPost ]

PostStates ==
  [ at       : {"idle", "posted", "done", "refused", "refetching"},
    form     : Forms \cup {"none"},    \* whose button it keeps disabled
    action   : {"none", "assign", "reassign", "status", "note"},
    target   : RequestStatuses,
    assigned : Vendors \cup {Keep},
    seen     : Snapshots,              \* auxiliary: what the page showed
    wrote    : 0..MaxVersion ]         \* the version of a change that is done

NoTarget == "none"

NotPosted == [ at |-> "idle", form |-> "none", action |-> "none",
               target |-> "CREATED", assigned |-> Keep, seen |-> NotLoaded, wrote |-> 0 ]

DetailsTypeOK ==
  /\ RowTypeOK
  /\ shown \in Snapshots
  /\ isError \in BOOLEAN
  /\ chosen \in RequestStatuses \cup {NoTarget}
  /\ reads \in [Reads -> ReadStates]
  /\ posts \in [Posts -> PostStates]
  /\ own \in 0..MaxVersion
  /\ overlapping \in BOOLEAN

\* The page is not open.
DetailsInit ==
  /\ RowInit
  /\ shown = NotLoaded
  /\ isError = FALSE
  /\ chosen = NoTarget
  /\ reads = [r \in Reads |-> NoRead]
  /\ posts = [p \in Posts |-> NotPosted]
  /\ own = 0
  /\ overlapping = FALSE

-----------------------------------------------------------------------------
ReadUnderWay == \E r \in Reads : reads[r].at # "none"

\* fetchDetails.
BeginRead(post) ==
  /\ \E r \in Reads :
       /\ reads[r].at = "none"
       /\ reads' = [reads EXCEPT ![r] = [NoRead EXCEPT !.at = "sent", !.post = post]]
  /\ isError' = FALSE
  /\ overlapping' = ReadUnderWay

OpenPage ==
  /\ BeginRead(NoPost)
  /\ UNCHANGED <<row, shown, chosen, posts, own>>

\* The backend reads the row.
ServeRead(r) ==
  /\ reads[r].at = "sent"
  /\ reads' = [reads EXCEPT ![r].at = "answered", ![r].row = RowNow]
  /\ UNCHANGED <<row, shown, isError, chosen, posts, own, overlapping>>

\* The post that waited for this read is over.
Over(r) == [p \in Posts |-> IF reads[r].post = p THEN NotPosted ELSE posts[p]]

\* The answer is there, and shown ...
ShowAnswer(r) ==
  /\ reads[r].at = "answered"
  /\ shown' = reads[r].row
  /\ posts' = Over(r)
  /\ reads' = [reads EXCEPT ![r] = NoRead]
  /\ UNCHANGED <<row, isError, chosen, own, overlapping>>

\* ... or an error, which takes the place of the page: its modals forget what was
\* chosen and that they wait for a post.  The notes' flag is the page's own and
\* stays.
Unmounted(post) == IF post.form = "note" THEN post ELSE [post EXCEPT !.form = "none"]

ShowError(r) ==
  /\ reads[r].at # "none"
  /\ isError' = TRUE
  /\ chosen' = NoTarget
  /\ posts' = [p \in Posts |-> Unmounted(Over(r)[p])]
  /\ reads' = [reads EXCEPT ![r] = NoRead]
  /\ UNCHANGED <<row, shown, own, overlapping>>

\* The button beside an error.
Retry ==
  /\ isError
  /\ BeginRead(NoPost)
  /\ UNCHANGED <<row, shown, chosen, posts, own>>

-----------------------------------------------------------------------------
\* "Backend FSM Allowed State Transitions", as the page has them.
UiTransitions ==
  [ CREATED               |-> {"ASSIGNED", "CANCELLED"},
    ASSIGNED              |-> {"ASSIGNED", "CREATED", "SCHEDULED", "IN_PROGRESS", "CANCELLED"},
    SURVEY_PENDING        |-> {"SURVEY_SUBMITTED", "CANCELLED"},
    SURVEY_SUBMITTED      |-> {"SURVEY_APPROVED", "CANCELLED"},
    SURVEY_APPROVED       |-> {"ESTIMATE_CREATED", "SCHEDULED", "IN_PROGRESS", "CANCELLED"},
    ESTIMATE_CREATED      |-> {"AWAITING_APPROVAL", "CANCELLED"},
    AWAITING_APPROVAL     |-> {"SCHEDULED", "IN_PROGRESS", "CANCELLED"},
    ADVANCE_PENDING       |-> {"ADVANCE_RECEIVED", "CANCELLED"},
    ADVANCE_RECEIVED      |-> {"SCHEDULED", "IN_PROGRESS", "CANCELLED"},
    SCHEDULED             |-> {"IN_PROGRESS", "CANCELLED"},
    IN_PROGRESS           |-> {"WORK_COMPLETED", "CANCELLED"},
    WORK_COMPLETED        |-> {"QUALITY_CHECK", "COMPLETED", "CANCELLED"},
    QUALITY_CHECK         |-> {"FINAL_PAYMENT_PENDING", "COMPLETED", "CANCELLED"},
    FINAL_PAYMENT_PENDING |-> {"COMPLETED", "CANCELLED"},
    COMPLETED             |-> {"ARCHIVED"},
    ARCHIVED              |-> {},
    CANCELLED             |-> {} ]

\* selectableOptions.
AllStatuses == RequestStatuses
SelectableStatuses == UiTransitions[shown.status]

\* A form is sent when its button is free and the page shows the request.
Post(form, action, target, assigned) ==
  /\ shown # NotLoaded /\ ~isError
  /\ \A p \in Posts : posts[p].form # form
  /\ \E p \in Posts :
       /\ posts[p].at = "idle"
       /\ posts' = [posts EXCEPT ![p] =
                      [ at |-> "posted", form |-> form, action |-> action,
                        target |-> target, assigned |-> assigned,
                        seen |-> IF form = "note" THEN NotLoaded ELSE shown,
                        wrote |-> 0 ]]
  /\ UNCHANGED <<row, shown, isError, chosen, reads, own, overlapping>>

\* Which of the two endpoints is called hangs on the vendor shown.
handleAssignVendor ==
  \E v \in Vendors :
    Post("assign", IF shown.vendor = NoVendor THEN "assign" ELSE "reassign",
         "ASSIGNED", v)

\* A target is picked in the status' modal, or none.  The modal keeps it when it is
\* closed, when its form has been sent and when other targets are offered.
chooseTarget ==
  /\ shown # NotLoaded /\ ~isError
  /\ SelectableStatuses # {}
  /\ chosen' \in (SelectableStatuses \cap OfferedTargets) \cup {NoTarget}
  /\ UNCHANGED <<row, shown, isError, reads, posts, own, overlapping>>

\* The list of targets must show what is sent; a form that offers none has no list,
\* and sends what was chosen last.
handleChangeStatus ==
  /\ chosen # NoTarget
  /\ chosen \in SelectableStatuses \/ SelectableStatuses = {}
  /\ Post("status", "status", chosen, Keep)

handleAddNote == Post("note", "note", "CREATED", Keep)

-----------------------------------------------------------------------------
Writes(p) == posts[p].action # "note"
Answered(p, at, wrote) ==
  [NotPosted EXCEPT !.at = at, !.form = posts[p].form, !.wrote = wrote]

\* The backend takes the post.  Both endpoints of the assignment are
\* assignVendorAdmin; a note leaves the row alone.
Serve(p) ==
  /\ posts[p].at = "posted"
  /\ IF Writes(p)
     THEN \E from \in held :
            VersionedWrite(from, posts[p].target, version, posts[p].assigned)
     ELSE UNCHANGED row
  /\ posts' = [posts EXCEPT ![p] = Answered(p, "done", IF Writes(p) THEN version' ELSE 0)]
  /\ UNCHANGED <<shown, isError, chosen, reads, own, overlapping>>

\* The state machine answers 422.
Refuse(p) ==
  /\ posts[p].at = "posted"
  /\ Writes(p)
  /\ ~CanTransition(status, posts[p].target)
  /\ posts' = [posts EXCEPT ![p] = Answered(p, "refused", 0)]
  /\ UNCHANGED <<row, shown, isError, chosen, reads, own, overlapping>>

\* What follows the await: the request is read again.
NothingRead(p) ==
  /\ posts' = [posts EXCEPT ![p] = NotPosted]
  /\ UNCHANGED <<reads, isError, overlapping>>
Refetch(p) ==
  /\ BeginRead(p)
  /\ posts' = [posts EXCEPT ![p] = Answered(p, "refetching", 0)]

Acknowledge(p) ==
  /\ posts[p].at = "done"
  /\ Refetch(p)
  /\ own' = IF posts[p].wrote > own THEN posts[p].wrote ELSE own
  /\ UNCHANGED <<row, shown, chosen>>

\* The refusal is shown in the form, and so is an error on the way, whether the
\* backend had taken the post or not.  Nothing is read again.
Fail(p) ==
  /\ posts[p].at \in {"posted", "done", "refused"}
  /\ posts' = [posts EXCEPT ![p] = NotPosted]
  /\ UNCHANGED <<row, shown, isError, chosen, reads, own, overlapping>>

\* Everyone else.
Outside ==
  /\ RowNext
  /\ status' \in OutsideTargets
  /\ UNCHANGED detailsVars

DetailsNext ==
  \/ Retry \/ Outside
  \/ \E r \in Reads : ServeRead(r) \/ ShowAnswer(r) \/ ShowError(r)
  \/ handleAssignVendor \/ chooseTarget \/ handleChangeStatus \/ handleAddNote
  \/ \E p \in Posts :
       Serve(p) \/ Refuse(p) \/ Acknowledge(p) \/ Fail(p)

=============================================================================
