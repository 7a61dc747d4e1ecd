--------------------------- MODULE ServiceRequests ---------------------------
(***************************************************************************)
(* ServiceRequestService: the handlers that move one service request, run  *)
(* concurrently.  Every handler reads the row outside its transaction,     *)
(* checks what it read, and then writes in a transaction of its own, so a  *)
(* handler is two or three steps (vendor rejection reads twice) and the    *)
(* steps of different handlers interleave.  Between two steps a handler    *)
(* holds only what it read, in "calls".                                    *)
(*                                                                         *)
(* The other components that write the row are here as the writes they     *)
(* make: a work order being created (a read, then a write), work execution *)
(* and payment (which read and write inside one transaction), and survey   *)
(* and estimate documents (DocumentSync of RequestRow).                    *)
(***************************************************************************)
EXTENDS RequestRow

CONSTANTS
  Calls,          \* handler invocations that may be in flight at once
  AdminTargets    \* bound: the statuses an admin asks changeStatus for

ASSUME AdminTargetsAssumption == AdminTargets \subseteq RequestStatuses

VARIABLES
  calls,          \* what each invocation has read and is about to do
  logged          \* toStatus of the newest ServiceRequestHistory row

vars == <<status, vendor, version, held, calls, logged>>

Ops == {"none", "transition", "accept", "rejecting", "reject"}

CallStates ==
  [ op      : Ops,
    from    : RequestStatuses,                   \* status it read or assumes
    to      : RequestStatuses,                   \* status it will write
    vendor  : Assignable \cup {Keep},            \* vendor it will write
    version : 0..MaxVersion ]                    \* version it read, 0: none

NoCall == [ op |-> "none", from |-> "CREATED", to |-> "CREATED",
            vendor |-> Keep, version |-> 0 ]

\* One type invariant: the row and what every invocation holds.
TypeOK ==
  /\ RowTypeOK
  /\ calls \in [Calls -> CallStates]
  /\ logged \in RequestStatuses

Init ==
  /\ RowInit
  /\ calls = [c \in Calls |-> NoCall]
  /\ logged = "CREATED"

-----------------------------------------------------------------------------
Hold(c, op, from, to, assigned, read) ==
  /\ calls[c].op = "none"
  /\ calls' = [calls EXCEPT ![c] =
                 [ op |-> op, from |-> from, to |-> to,
                   vendor |-> assigned, version |-> read ]]
  /\ UNCHANGED <<row, logged>>

Finish(c) == calls' = [calls EXCEPT ![c] = NoCall]

\* The ServiceRequestHistory row a transaction adds besides its write.
NotLogged(to) == logged' = logged
Log(to) == logged' = to

\* cancelCustomerRequest, up to the transaction.
ReadForCancel(c) ==
  /\ status # "CANCELLED"
  /\ Hold(c, "transition", status, "CANCELLED", Keep, version)

\* assignVendorAdmin (assign and reassign), up to the transaction.
ReadForAssign(c) ==
  \E v \in Vendors : Hold(c, "transition", status, "ASSIGNED", v, version)

\* changeStatusAdmin, up to the transaction.
ReadForChangeStatus(c) ==
  \E to \in AdminTargets : Hold(c, "transition", status, to, Keep, version)

\* createWorkOrderAdmin, up to the transaction (WorkOrders models the rest).
ReadForSchedule(c) ==
  /\ vendor # NoVendor
  /\ Hold(c, "transition", status, "SCHEDULED", Keep, version)

\* The transaction of the handlers that pass on the status and version of one
\* read.
CommitTransition(c) ==
  /\ calls[c].op = "transition"
  /\ VersionedWrite(calls[c].from, calls[c].to,
                    calls[c].version, calls[c].vendor)
  /\ Log(calls[c].to)
  /\ Finish(c)

\* acceptAssignmentVendor: the check, then a history row and nothing else.
ReadForAccept(c) ==
  /\ vendor # NoVendor
  /\ status = "ASSIGNED"
  /\ Hold(c, "accept", "ASSIGNED", "ASSIGNED", Keep, 0)

CommitAccept(c) ==
  /\ calls[c].op = "accept"
  /\ Log("ASSIGNED")
  /\ Finish(c)
  /\ UNCHANGED row

\* rejectAssignmentVendor: getAssignedRequestByIdVendor and the status check.
ReadForReject(c) ==
  /\ vendor # NoVendor
  /\ status = "ASSIGNED"
  /\ Hold(c, "rejecting", "ASSIGNED", "CREATED", NoVendor, 0)

\* ... then a second read, of the version alone.
ReadVersionForReject(c) ==
  /\ calls[c].op = "rejecting"
  /\ calls' = [calls EXCEPT ![c] =
                 [ op |-> "reject", from |-> @.from, to |-> @.to,
                   vendor |-> @.vendor, version |-> version ]]
  /\ UNCHANGED <<row, logged>>

\* ... then the transaction, from ASSIGNED whatever the row is by now.
CommitReject(c) ==
  /\ calls[c].op = "reject"
  /\ VersionedWrite(calls[c].from, calls[c].to,
                    calls[c].version, calls[c].vendor)
  /\ Log(calls[c].to)
  /\ Finish(c)

\* An invocation ends without writing: transitionStatus threw 409 or 422, the
\* vendor was not eligible, the database failed, the process stopped.
Abort(c) ==
  /\ calls[c].op # "none"
  /\ Finish(c)
  /\ UNCHANGED <<row, logged>>

\* Work orders and payments read the request and move it inside a transaction of
\* their own.  Under READ COMMITTED a document may overwrite the status between
\* the two, so the status they start from is one the row has had at its version.
ExecutionTargets == {"IN_PROGRESS", "WORK_COMPLETED", "COMPLETED"}

ExecutionSync(to) ==
  /\ \E read \in held \ {to} : VersionedWrite(read, to, version, Keep)
  /\ Log(to)
  /\ UNCHANGED calls

SyncFromDocument(to) ==
  /\ DocumentSync(to)
  /\ Log(to)
  /\ UNCHANGED calls

Next ==
  \/ \E c \in Calls :
       \/ ReadForCancel(c)       \/ ReadForAssign(c)
       \/ ReadForChangeStatus(c) \/ ReadForSchedule(c)
       \/ CommitTransition(c)
       \/ ReadForAccept(c)       \/ CommitAccept(c)
       \/ ReadForReject(c)       \/ ReadVersionForReject(c)
       \/ CommitReject(c)        \/ Abort(c)
  \/ \E to \in ExecutionTargets : ExecutionSync(to)
  \/ \E to \in DocumentStatuses : SyncFromDocument(to)

Spec == Init /\ [][Next]_vars

-----------------------------------------------------------------------------
\* A write that still matches the version it read was decided on a status the
\* row has had at that very version, and no invocation is ahead of the row, so
\* a snapshot once out of date never becomes current again: what makes the
\* version in the WHERE of transitionStatus enough for the handlers that read
\* once.  A rejection is left out: it re-reads the version after its check.
SnapshotsHeld ==
  \A c \in Calls :
    /\ calls[c].version <= version
    /\ calls[c].op = "transition" /\ calls[c].version = version
         => calls[c].from \in held

\* A step of the row that gives it a new version follows the table from the
\* status the row really has, unless a document overwrote the status at this
\* version or the step is the commit of a rejection.
VersionedStepsFollowTable ==
  [][ /\ version' # version
      /\ held = {status}
      /\ ~ \E c \in Calls : calls[c].op = "reject" /\ calls'[c] = NoCall
      => status' \in RequestTransitions[status] ]_vars

\* The vendor of a request changes only by an assignment or when the request
\* goes back to the pool, and each time with a new version, so every reader of
\* the old vendor is out of date at once.
VendorChangesAreVersioned ==
  [][ vendor' # vendor
      => /\ version' > version
         /\ \/ vendor' \in Vendors /\ status' = "ASSIGNED"
            \/ vendor' = NoVendor  /\ status' = "CREATED" ]_vars

\* The newest history row names the status of the request.  The one exception
\* is the row an acceptance adds, which may come after the request moved on.
HistoryNamesStatus == logged # status => logged = "ASSIGNED"

=============================================================================
