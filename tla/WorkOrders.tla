----------------------------- MODULE WorkOrders -----------------------------
(***************************************************************************)
(* WorkOrdersService, WorkTaskService and WorkOrderAttachmentService: the  *)
(* work orders of one service request and the request row they move.       *)
(*                                                                         *)
(* As in ServiceRequests a handler reads outside its transaction and       *)
(* writes inside it.  A work order's transition is one transaction with    *)
(* the request's: when the request may not follow, both roll back.  The    *)
(* transaction has two steps: it updates the order, which locks it, and    *)
(* reads the request, which locks nothing; then it commits.  The rest of   *)
(* the backend is the environment: it writes the row by the steps of       *)
(* RequestRow, which ServiceRequests is shown to implement.                *)
(***************************************************************************)
EXTENDS RequestRow

CONSTANTS
  Orders,           \* bound: work orders ever created for the request
  NoOrder,          \* a handler that works on no order yet
  Calls,            \* handler invocations that may be in flight at once
  MaxOrderVersion,  \* bound: a work order's version stops here
  OutsideTargets    \* bound: the statuses other handlers move the request to

ASSUME OrdersAssumption == NoOrder \notin Orders
ASSUME MaxOrderVersionAssumption == MaxOrderVersion \in Nat \ {0}

VARIABLES
  orders,           \* the work_orders rows of the request
  calls             \* what each invocation has read and is about to do

workVars == <<orders, calls>>
vars == <<status, vendor, version, held, orders, calls>>

\* A row, with its checklist and attachments reduced to what completion asks:
\* is some task not COMPLETED, and is there an attachment.
OrderRows ==
  [ status  : WorkOrderStatuses \cup {"NONE"},
    version : 0..MaxOrderVersion,
    vendor  : Assignable,
    todo    : BOOLEAN,
    photo   : BOOLEAN ]

Unused == [ status |-> "NONE", version |-> 0, vendor |-> NoVendor,
            todo |-> FALSE, photo |-> FALSE ]

Ops == {"none", "creating", "create", "transition", "sync", "task", "photo",
        "unphoto"}

\* "from" and "version" are the order's until its transaction has updated it
\* ("transition"), the request's from then on ("sync") and in a creation.

CallStates ==
  [ op      : Ops,
    order   : Orders \cup {NoOrder},
    from    : RequestStatuses \cup WorkOrderStatuses,
    to      : RequestStatuses \cup WorkOrderStatuses,
    version : 0..MaxVersion \cup 0..MaxOrderVersion,
    vendor  : Assignable ]

NoCall == [ op |-> "none", order |-> NoOrder, from |-> "CREATED",
            to |-> "CREATED", version |-> 0, vendor |-> NoVendor ]

\* One type invariant: the row, the orders and what every invocation holds.
TypeOK ==
  /\ RowTypeOK
  /\ orders \in [Orders -> OrderRows]
  /\ calls \in [Calls -> CallStates]

Init ==
  /\ RowInit
  /\ orders = [w \in Orders |-> Unused]
  /\ calls = [c \in Calls |-> NoCall]

\* An order that createWorkOrderAdmin counts as active.
Active(w) == orders[w].status \notin {"NONE", "CANCELLED"}

Exists(w) == orders[w].status # "NONE"

-----------------------------------------------------------------------------
Hold(c, op, w, from, to, read, assigned) ==
  /\ calls[c].op = "none"
  /\ calls' = [calls EXCEPT ![c] =
                 [ op |-> op, order |-> w, from |-> from, to |-> to,
                   version |-> read, vendor |-> assigned ]]
  /\ UNCHANGED <<row, orders>>

Finish(c) == calls' = [calls EXCEPT ![c] = NoCall]

\* createWorkOrderAdmin: the estimate with its request, which needs a vendor.
ReadForCreate(c) ==
  /\ vendor # NoVendor
  /\ Hold(c, "creating", NoOrder, status, "SCHEDULED", version, vendor)

\* ... then, in a query of its own, that no active order exists.
NotChecked == TRUE
NoActiveOrder == \A w \in Orders : ~Active(w)

CheckNoActiveOrder(c) ==
  /\ calls[c].op = "creating"
  /\ NoActiveOrder
  /\ calls' = [calls EXCEPT ![c] =
                 [ op |-> "create", order |-> NoOrder, from |-> @.from,
                   to |-> @.to, version |-> @.version, vendor |-> @.vendor ]]
  /\ UNCHANGED <<row, orders>>

\* ... then the transaction: the order, and the request to SCHEDULED from the
\* status and version of the first read.  (Three attempts with the same values
\* help against a taken number only: a version once left never returns.)
NewOrder(call) ==
  [ status |-> "ASSIGNED", version |-> 1, vendor |-> call.vendor,
    todo |-> FALSE, photo |-> FALSE ]

CommitCreate(c) ==
  /\ calls[c].op = "create"
  /\ \E w \in Orders :
       /\ ~Exists(w)
       /\ orders' = [orders EXCEPT ![w] = NewOrder(calls[c])]
  /\ VersionedWrite(calls[c].from, calls[c].to, calls[c].version, Keep)
  /\ Finish(c)

-----------------------------------------------------------------------------
\* The handlers that move an order: each reads it, checks its status, and goes
\* on to its transaction with the status and version it read.
ReadForTransition(c, w, to) ==
  Hold(c, "transition", w, orders[w].status, to, orders[w].version, NoVendor)

ReadForStart(c, w) ==
  /\ orders[w].status \in {"ASSIGNED", "SCHEDULED"}
  /\ ReadForTransition(c, w, "IN_PROGRESS")

ReadForPause(c, w) ==
  /\ orders[w].status = "IN_PROGRESS"
  /\ ReadForTransition(c, w, "ON_HOLD")

ReadForResume(c, w) ==
  /\ orders[w].status = "ON_HOLD"
  /\ ReadForTransition(c, w, "IN_PROGRESS")

CompleteAnyWork(c, w) ==
  /\ orders[w].status = "IN_PROGRESS"
  /\ orders[w].photo
  /\ ReadForTransition(c, w, "COMPLETED")
ReadForComplete(c, w) ==
  /\ orders[w].status = "IN_PROGRESS"
  /\ ~orders[w].todo
  /\ orders[w].photo
  /\ ReadForTransition(c, w, "COMPLETED")

ReadForVerify(c, w) ==
  /\ orders[w].status = "COMPLETED"
  /\ ReadForTransition(c, w, "COMPLETED")

ReadForCancel(c, w) ==
  /\ Exists(w)
  /\ orders[w].status \notin {"COMPLETED", "CANCELLED"}
  /\ ReadForTransition(c, w, "CANCELLED")

\* The WHERE clause of the work order's UPDATE, besides the id.
OrderVersionIgnored(w, expected) == TRUE
OrderVersionMatches(w, expected) == orders[w].version = expected

\* A transaction that has updated an order holds its row until it ends: another
\* UPDATE of the row waits, and compares the version that is then there.
Locked(w) == \E c \in Calls : calls[c].op = "sync" /\ calls[c].order = w

\* WorkOrderStateService.transitionStatus, up to its read of the request: the
\* table and the order's UPDATE, which nobody sees before the commit.
UpdateOrder(c) ==
  LET w == calls[c].order
      to == calls[c].to
      expected == calls[c].version
  IN /\ calls[c].op = "transition"
     /\ to \in WorkOrderTransitions[calls[c].from]
     /\ OrderVersionMatches(w, expected)
     /\ expected < MaxOrderVersion
     /\ ~Locked(w)
     /\ calls' = [calls EXCEPT ![c] =
                    [ op |-> "sync", order |-> w, from |-> status, to |-> to,
                      version |-> version, vendor |-> NoVendor ]]
     /\ UNCHANGED <<row, orders>>

\* The request follows its order, through its own transition, when it was not
\* read to be there already.  A request that was is left alone: neither its lock
\* nor its version tells whether it still is when the order commits.
RequestTarget(to, read) ==
  IF to = "IN_PROGRESS" THEN "IN_PROGRESS"
  ELSE IF to = "COMPLETED" THEN "WORK_COMPLETED"
  ELSE read

RequestLeftBehind(c) == UNCHANGED row
SyncRequest(c) ==
  LET read == calls[c].from
      target == RequestTarget(calls[c].to, read)
  IN IF target = read
       THEN UNCHANGED row
       ELSE VersionedWrite(read, target, calls[c].version, Keep)

\* ... the rest of it and the commit.
CommitTransition(c) ==
  /\ calls[c].op = "sync"
  /\ orders' = [orders EXCEPT ![calls[c].order] =
                  [ status |-> calls[c].to, version |-> @.version + 1,
                    vendor |-> @.vendor, todo |-> @.todo, photo |-> @.photo ]]
  /\ SyncRequest(c)
  /\ Finish(c)

-----------------------------------------------------------------------------
\* The vendor's checklist: create, update and delete check the order's status
\* and then write the task in a step of their own.
ReadForTask(c, w) ==
  /\ Exists(w)
  /\ orders[w].status \notin {"COMPLETED", "CANCELLED"}
  /\ Hold(c, "task", w, "CREATED", "CREATED", 0, NoVendor)

CommitTask(c) ==
  /\ calls[c].op = "task"
  /\ \E b \in BOOLEAN :
       orders' = [orders EXCEPT ![calls[c].order] =
                    [ status |-> @.status, version |-> @.version,
                      vendor |-> @.vendor, todo |-> b, photo |-> @.photo ]]
  /\ Finish(c)
  /\ UNCHANGED row

\* uploadAttachment and deleteAttachment by the vendor.
ReadForUpload(c, w) ==
  /\ Exists(w)
  /\ orders[w].status # "CANCELLED"
  /\ Hold(c, "photo", w, "CREATED", "CREATED", 0, NoVendor)

ReadForDelete(c, w) ==
  /\ Exists(w)
  /\ orders[w].photo
  /\ orders[w].status # "COMPLETED"
  /\ Hold(c, "unphoto", w, "CREATED", "CREATED", 0, NoVendor)

\* Deleting one attachment may leave others.
CommitAttachment(c) ==
  /\ calls[c].op \in {"photo", "unphoto"}
  /\ \E b \in BOOLEAN :
       /\ calls[c].op = "photo" => b
       /\ b => calls[c].op = "photo" \/ orders[calls[c].order].photo
       /\ orders' = [orders EXCEPT ![calls[c].order] =
                       [ status |-> @.status, version |-> @.version,
                         vendor |-> @.vendor, todo |-> @.todo, photo |-> b ]]
  /\ Finish(c)
  /\ UNCHANGED row

-----------------------------------------------------------------------------
\* An invocation ends without writing: a check or transitionStatus threw, the
\* database failed, the process stopped.
Abort(c) ==
  /\ calls[c].op # "none"
  /\ Finish(c)
  /\ UNCHANGED <<row, orders>>

\* The rest of the backend writes the request.
Outside ==
  /\ RowNext
  /\ status' \in OutsideTargets
  /\ UNCHANGED workVars

Next ==
  \/ \E c \in Calls :
       \/ ReadForCreate(c) \/ CheckNoActiveOrder(c) \/ CommitCreate(c)
       \/ UpdateOrder(c) \/ CommitTransition(c)
       \/ CommitTask(c) \/ CommitAttachment(c) \/ Abort(c)
       \/ \E w \in Orders :
            \/ ReadForStart(c, w)    \/ ReadForPause(c, w)
            \/ ReadForResume(c, w)   \/ ReadForComplete(c, w)
            \/ ReadForVerify(c, w)   \/ ReadForCancel(c, w)
            \/ ReadForTask(c, w)     \/ ReadForUpload(c, w)
            \/ ReadForDelete(c, w)
  \/ Outside

Spec == Init /\ [][Next]_vars

-----------------------------------------------------------------------------
\* A request never has two active work orders, although the check for one and
\* the creation are separate queries and no constraint of the database forbids
\* it: the version of the request arbitrates.
AtMostOneActiveOrder ==
  \A w, x \in Orders : Active(w) /\ Active(x) => w = x

\* A new order goes to the vendor the request has when the order appears, not
\* to the one it had when the admin looked.
OrderGoesToAssignedVendor ==
  [][ \A w \in Orders : ~Exists(w) /\ Exists(w)'
        => orders'[w].vendor = vendor' /\ vendor' # NoVendor ]_vars

\* An order's status follows the table from the status it really has, and the
\* version counts its steps, whatever the handlers had read.
OrderFollowsTable ==
  [][ \A w \in Orders :
        Exists(w) /\ orders'[w].version # orders[w].version
          => /\ orders'[w].status \in WorkOrderTransitions[orders[w].status]
             /\ orders'[w].version = orders[w].version + 1 ]_vars

\* Work starts, resumes, completes and is verified only in step with the
\* request: never on a request that is cancelled, completed or back in the pool.
\* The exceptions are the code's: a document has overwritten the request's status
\* at this version, or the request had been read where it belongs, was not
\* written therefore, and has moved on before the order committed.
MovedOnSinceRead(w, target) ==
  \E c \in Calls : /\ calls[c].op = "sync" /\ calls[c].order = w
                   /\ calls[c].from = target
                   /\ calls[c].version < version

ExecutionMovesTheRequest ==
  [][ held = {status}
        => \A w \in Orders :
             orders'[w].version # orders[w].version
               => /\ orders'[w].status = "IN_PROGRESS"
                       => \/ /\ status' = "IN_PROGRESS"
                             /\ status \notin {"CREATED", "CANCELLED", "COMPLETED"}
                          \/ MovedOnSinceRead(w, "IN_PROGRESS")
                  /\ orders'[w].status = "COMPLETED"
                       => \/ /\ status' = "WORK_COMPLETED"
                             /\ status \in {"IN_PROGRESS", "WORK_COMPLETED"}
                          \/ MovedOnSinceRead(w, "WORK_COMPLETED") ]_vars

=============================================================================
