-------------------------- MODULE WorkOrders_proofs --------------------------
(***************************************************************************)
(* Work orders, for any number of vendors, orders and invocations.         *)
(*                                                                         *)
(* That a request has at most one active order is not inductive: it needs  *)
(* to be known that an invocation which found no active order, and whose   *)
(* version of the request is still current, is still right (CreateHolds),  *)
(* and that no transition revives an order, which in turn needs that a     *)
(* current snapshot of an order still tells its status (OrderHolds), and   *)
(* that an order updated by a transaction that has not yet committed is    *)
(* locked: it is still what the transaction updated (SyncHolds, OneLock).  *)
(*                                                                         *)
(* A completion is either known to be outdated or its check still holds    *)
(* (ChecksHold), since every write it does not lock makes it outdated.     *)
(***************************************************************************)
EXTENDS Completion, RequestRow_proofs

USE OrdersAssumption, MaxOrderVersionAssumption

LEMMA WorkOrderTableTyped ==
  /\ WorkOrderStatuses =
       {"ASSIGNED", "SCHEDULED", "IN_PROGRESS", "ON_HOLD", "COMPLETED", "CANCELLED"}
  /\ \A s \in WorkOrderStatuses :
       WorkOrderTransitions[s] \subseteq WorkOrderStatuses
  /\ WorkOrderTransitions["CANCELLED"] = {}
<1>1. WorkOrderStatuses =
       {"ASSIGNED", "SCHEDULED", "IN_PROGRESS", "ON_HOLD", "COMPLETED", "CANCELLED"}
  BY DEF WorkOrderStatuses, WorkOrderTransitions
<1> QED
  BY <1>1 DEF WorkOrderTransitions

\* An invocation that works on an order holds an order that exists.
OrderNamed(call) ==
  call.op \in {"transition", "sync", "task", "photo", "unphoto"}
    => call.order \in Orders /\ Exists(call.order)

\* The snapshot of an order that an invocation is about to move.
OrderHolds(call) ==
  call.op = "transition"
    => /\ call.from \in WorkOrderStatuses
       /\ call.version <= orders[call.order].version
       /\ call.version = orders[call.order].version
            => call.from = orders[call.order].status

\* The order a transaction has updated, and the request it has read since.
SyncHolds(call) ==
  call.op = "sync"
    => /\ orders[call.order].version < MaxOrderVersion
       /\ call.to \in WorkOrderTransitions[orders[call.order].status]
       /\ call.from \in RequestStatuses
       /\ call.version <= version
       /\ call.version = version => call.from \in held

\* The snapshot of the request that an invocation is creating an order from.
CreateHolds(call) ==
  call.op \in {"creating", "create"}
    => /\ call.to = "SCHEDULED"
       /\ call.vendor \in Vendors
       /\ call.version <= version
       /\ call.version = version
            => call.from \in held /\ call.vendor = vendor
       /\ call.version = version /\ call.op = "create" => NoActiveOrder

SnapshotsHold ==
  \A c \in Calls : /\ OrderNamed(calls[c])
                   /\ OrderHolds(calls[c])
                   /\ SyncHolds(calls[c])
                   /\ CreateHolds(calls[c])

\* An order is locked by one transaction.
OneLock ==
  \A c, d \in Calls :
    calls[c].op = "sync" /\ calls[d].op = "sync" /\ calls[c].order = calls[d].order
      => c = d

\* The inductive invariant.
IInv == TypeOK /\ SnapshotsHold /\ OneLock /\ AtMostOneActiveOrder

-----------------------------------------------------------------------------
LEMMA InitIInv == Init => IInv
<1> SUFFICES ASSUME Init
             PROVE  IInv
  OBVIOUS
<1>1. TypeOK
  BY RequestTableTyped, MaxVersionAssumption
     DEF Init, RowInit, TypeOK, RowTypeOK, Assignable, OrderRows, Unused,
         CallStates, NoCall, Ops
<1>2. SnapshotsHold /\ OneLock
  BY DEF Init, SnapshotsHold, OneLock, OrderNamed, OrderHolds, SyncHolds,
         CreateHolds, NoCall
<1>3. AtMostOneActiveOrder
  BY DEF Init, AtMostOneActiveOrder, Active, Unused
<1> QED
  BY <1>1, <1>2, <1>3 DEF IInv

\* Every step on the request is a step of the abstract row.
LEMMA StepsImplementRow == IInv /\ [Next]_vars => [RowNext]_row
<1> SUFFICES ASSUME IInv, [Next]_vars
             PROVE  [RowNext]_row
  OBVIOUS
<1>1. ASSUME NEW c \in Calls, CommitCreate(c)
      PROVE  Transition
  <2>1. /\ VersionedWrite(calls[c].from, "SCHEDULED", calls[c].version, Keep)
        /\ calls[c].version = version
        /\ calls[c].from \in held
    BY <1>1 DEF CommitCreate, IInv, SnapshotsHold, CreateHolds,
                VersionedWrite, VersionMatches
  <2> QED
    BY <2>1, RequestTableTyped, VendorsAssumption DEF Transition
<1>2. ASSUME NEW c \in Calls, CommitTransition(c)
      PROVE  [RowNext]_row
  <2> DEFINE target == RequestTarget(calls[c].to, calls[c].from)
  <2>1. calls[c].op = "sync" /\ SyncRequest(c) /\ SyncHolds(calls[c])
    BY <1>2 DEF CommitTransition, IInv, SnapshotsHold
  <2>2. target \in RequestStatuses
    BY <2>1, RequestTableTyped DEF RequestTarget, SyncHolds
  <2>3. ASSUME VersionedWrite(calls[c].from, target, calls[c].version, Keep)
        PROVE  Transition
    <3>1. calls[c].version = version /\ calls[c].from \in held
      BY <2>1, <2>3 DEF VersionedWrite, VersionMatches, SyncHolds
    <3> QED
      BY <2>2, <2>3, <3>1, VendorsAssumption DEF Transition
  <2> QED
    BY <2>1, <2>3 DEF SyncRequest, RowNext
<1>3. ASSUME Outside
      PROVE  RowNext
  BY <1>3 DEF Outside
<1>4. ASSUME NEW c \in Calls,
             \/ ReadForCreate(c) \/ CheckNoActiveOrder(c) \/ UpdateOrder(c)
             \/ CommitTask(c) \/ CommitAttachment(c) \/ Abort(c)
      PROVE  UNCHANGED row
  BY <1>4 DEF row, Hold, ReadForCreate, CheckNoActiveOrder, UpdateOrder,
              CommitTask, CommitAttachment, Abort
<1>5. ASSUME NEW c \in Calls, NEW w \in Orders,
             \/ ReadForStart(c, w) \/ ReadForPause(c, w) \/ ReadForResume(c, w)
             \/ ReadForComplete(c, w) \/ ReadForVerify(c, w) \/ ReadForCancel(c, w)
             \/ ReadForTask(c, w) \/ ReadForUpload(c, w) \/ ReadForDelete(c, w)
      PROVE  UNCHANGED row
  BY <1>5 DEF row, Hold, ReadForTransition, ReadForStart, ReadForPause,
              ReadForResume, ReadForComplete, ReadForVerify, ReadForCancel,
              ReadForTask, ReadForUpload, ReadForDelete
<1>6. CASE UNCHANGED vars
  BY <1>6 DEF vars, row
<1> QED
  BY <1>1, <1>2, <1>3, <1>4, <1>5, <1>6 DEF Next, RowNext

\* The request side of a step, as every other proof uses it.
LEMMA RequestMovesForward ==
  IInv /\ [Next]_vars
    => /\ RowTypeOK'
       /\ \/ version' = version /\ vendor' = vendor /\ held \subseteq held'
          \/ version' = version + 1
BY StepsImplementRow, RowStepTyped, RowMovesForward DEF IInv, TypeOK

-----------------------------------------------------------------------------
\* The steps in which an invocation only reads: what it then holds is true.
Reads(c) ==
  \/ ReadForCreate(c)
  \/ \E w \in Orders :
       \/ ReadForStart(c, w)    \/ ReadForPause(c, w)
       \/ ReadForResume(c, w)   \/ ReadForComplete(c, w)
       \/ ReadForVerify(c, w)   \/ ReadForCancel(c, w)
       \/ ReadForTask(c, w)     \/ ReadForUpload(c, w)
       \/ ReadForDelete(c, w)

CallHolds(c) ==
  /\ OrderNamed(calls[c]) /\ OrderHolds(calls[c])
  /\ SyncHolds(calls[c]) /\ CreateHolds(calls[c])

LEMMA ReadsHold ==
  ASSUME IInv, NEW c \in Calls, Reads(c)
  PROVE  /\ UNCHANGED <<row, orders>>
         /\ \A d \in Calls \ {c} : calls'[d] = calls[d]
         /\ calls' \in [Calls -> CallStates]
         /\ CallHolds(c)'
         /\ calls'[c].op # "sync"
<1> DEFINE Goal == /\ UNCHANGED <<row, orders>>
                   /\ \A d \in Calls \ {c} : calls'[d] = calls[d]
                   /\ calls' \in [Calls -> CallStates]
                   /\ CallHolds(c)'
                   /\ calls'[c].op # "sync"
<1> USE DEF IInv, TypeOK, RowTypeOK, CallHolds, CallStates, Ops, OrderNamed,
            OrderHolds, SyncHolds, CreateHolds, row, Exists, Hold, Assignable
<1>1. CASE ReadForCreate(c)
  <2>1. status \in held /\ vendor \in Vendors
    BY <1>1 DEF ReadForCreate
  <2> QED
    BY <1>1, <2>1, RequestTableTyped DEF ReadForCreate
<1>2. ASSUME NEW w \in Orders, NEW to \in WorkOrderStatuses,
             orders[w].status \in WorkOrderStatuses,
             ReadForTransition(c, w, to)
      PROVE  Goal
  BY <1>2, WorkOrderTableTyped DEF ReadForTransition, OrderRows
<1>3. ASSUME NEW w \in Orders, Exists(w), NEW op \in {"task", "photo", "unphoto"},
             Hold(c, op, w, "CREATED", "CREATED", 0, NoVendor)
      PROVE  Goal
  BY <1>3, RequestTableTyped
<1>4. ASSUME NEW w \in Orders,
             \/ ReadForStart(c, w)    \/ ReadForPause(c, w)
             \/ ReadForResume(c, w)   \/ ReadForComplete(c, w)
             \/ ReadForVerify(c, w)   \/ ReadForCancel(c, w)
      PROVE  Goal
  <2>1. orders[w].status \in WorkOrderStatuses
    BY <1>4, WorkOrderTableTyped
       DEF OrderRows, ReadForStart, ReadForPause, ReadForResume,
           ReadForComplete, ReadForVerify, ReadForCancel
  <2>2. \E to \in WorkOrderStatuses : ReadForTransition(c, w, to)
    BY <1>4, WorkOrderTableTyped
       DEF ReadForStart, ReadForPause, ReadForResume,
           ReadForComplete, ReadForVerify, ReadForCancel
  <2> QED
    BY <2>1, <2>2, <1>2
<1>5. ASSUME NEW w \in Orders,
             ReadForTask(c, w) \/ ReadForUpload(c, w) \/ ReadForDelete(c, w)
      PROVE  Goal
  <2>1. Exists(w)
    BY <1>5 DEF ReadForTask, ReadForUpload, ReadForDelete
  <2>2. \E op \in {"task", "photo", "unphoto"} :
          Hold(c, op, w, "CREATED", "CREATED", 0, NoVendor)
    BY <1>5, Zenon DEF ReadForTask, ReadForUpload, ReadForDelete
  <2> QED
    BY <2>1, <2>2, <1>3
<1> QED
  BY <1>1, <1>4, <1>5 DEF Reads

-----------------------------------------------------------------------------
\* How a step changes the orders: their versions grow, a version determines its
\* status, and an order becomes active only when it is created, together with a
\* new version of the request and while no other order is active.
OrdersMove ==
  /\ orders' \in [Orders -> OrderRows]
  /\ \A w \in Orders :
       /\ Exists(w)
            => /\ Exists(w)'
               /\ orders[w].version <= orders'[w].version
               /\ orders'[w].version = orders[w].version
                    => orders'[w].status = orders[w].status
       /\ Active(w)' /\ ~Active(w)
            => /\ version' = version + 1
               /\ \A x \in Orders \ {w} : ~Active(x) /\ ~Active(x)'

LEMMA CreateMovesOrders ==
  ASSUME IInv, NEW c \in Calls, CommitCreate(c)
  PROVE  OrdersMove
<1>1. PICK w \in Orders :
        ~Exists(w) /\ orders' = [orders EXCEPT ![w] = NewOrder(calls[c])]
  BY DEF CommitCreate
<1>2. /\ version' = version + 1
      /\ calls[c].version = version
  BY DEF CommitCreate, VersionedWrite, VersionMatches, NewVersion
<1>3. NoActiveOrder /\ calls[c].vendor \in Vendors
  BY <1>2 DEF CommitCreate, IInv, SnapshotsHold, CreateHolds
<1>4. NewOrder(calls[c]) \in OrderRows
  BY <1>3, WorkOrderTableTyped DEF NewOrder, OrderRows, Assignable
<1> QED
  BY <1>1, <1>2, <1>3, <1>4
     DEF IInv, TypeOK, OrdersMove, Exists, Active, NoActiveOrder, OrderRows

LEMMA TransitionMovesOrders ==
  ASSUME IInv, NEW c \in Calls, CommitTransition(c)
  PROVE  OrdersMove
<1> DEFINE w == calls[c].order
           to == calls[c].to
<1>1. /\ w \in Orders
      /\ to \in WorkOrderTransitions[orders[w].status]
      /\ orders[w].status \in WorkOrderStatuses
      /\ orders[w].version < MaxOrderVersion
  BY DEF CommitTransition, IInv, TypeOK, SnapshotsHold, OrderNamed, SyncHolds,
         Exists, OrderRows
<1>2. to \in WorkOrderStatuses /\ Active(w)
  BY <1>1, WorkOrderTableTyped DEF Active
<1>3. orders' = [orders EXCEPT ![w] =
                   [ status |-> to, version |-> orders[w].version + 1,
                     vendor |-> orders[w].vendor, todo |-> orders[w].todo,
                     photo |-> orders[w].photo ]]
  BY <1>1 DEF CommitTransition, IInv, TypeOK
<1> QED
  BY <1>1, <1>2, <1>3, WorkOrderTableTyped
     DEF IInv, TypeOK, OrdersMove, Exists, Active, OrderRows

LEMMA ChecklistMovesOrders ==
  ASSUME IInv, NEW c \in Calls, CommitTask(c) \/ CommitAttachment(c)
  PROVE  OrdersMove
<1> DEFINE w == calls[c].order
<1>1. w \in Orders
  BY DEF CommitTask, CommitAttachment, IInv, SnapshotsHold, OrderNamed
<1>2. \E todo, photo \in BOOLEAN :
        orders' = [orders EXCEPT ![w] =
                     [ status |-> orders[w].status,
                       version |-> orders[w].version,
                       vendor |-> orders[w].vendor,
                       todo |-> todo, photo |-> photo ]]
  BY <1>1 DEF CommitTask, CommitAttachment, IInv, TypeOK, OrderRows
<1> QED
  BY <1>1, <1>2 DEF IInv, TypeOK, OrdersMove, Exists, Active, OrderRows

LEMMA OrdersMoveForward == IInv /\ [Next]_vars => OrdersMove
<1> SUFFICES ASSUME IInv, [Next]_vars
             PROVE  OrdersMove
  OBVIOUS
<1>1. CASE UNCHANGED orders
  BY <1>1 DEF OrdersMove, IInv, TypeOK, OrderRows, Exists, Active
<1> QED
  BY <1>1, CreateMovesOrders, TransitionMovesOrders, ChecklistMovesOrders,
     ReadsHold
     DEF Next, vars, Reads, CheckNoActiveOrder, UpdateOrder, Abort, Outside,
         workVars

-----------------------------------------------------------------------------
\* Only a creation and a transition's commit touch the status, version or vendor
\* of an order.
OrderKept(w) == /\ orders'[w].status = orders[w].status
                /\ orders'[w].version = orders[w].version
                /\ orders'[w].vendor = orders[w].vendor

LEMMA OtherStepsKeepOrders ==
  ASSUME IInv, [Next]_vars
  PROVE  \/ \E c \in Calls : CommitCreate(c) \/ CommitTransition(c)
         \/ \A w \in Orders : OrderKept(w)
<1>1. CASE UNCHANGED orders
  BY <1>1 DEF OrderKept
<1>2. ASSUME NEW c \in Calls, CommitTask(c) \/ CommitAttachment(c)
      PROVE  \A w \in Orders : OrderKept(w)
  <2>1. calls[c].order \in Orders
    BY <1>2 DEF CommitTask, CommitAttachment, IInv, SnapshotsHold, OrderNamed
  <2>2. \E todo, photo \in BOOLEAN :
          orders' = [orders EXCEPT ![calls[c].order] =
                       [ status |-> orders[calls[c].order].status,
                         version |-> orders[calls[c].order].version,
                         vendor |-> orders[calls[c].order].vendor,
                         todo |-> todo, photo |-> photo ]]
    BY <1>2, <2>1 DEF CommitTask, CommitAttachment, IInv, TypeOK, OrderRows
  <2> QED
    BY <2>1, <2>2 DEF OrderKept, IInv, TypeOK
<1> QED
  BY <1>1, <1>2, ReadsHold
     DEF Next, vars, Reads, CheckNoActiveOrder, UpdateOrder, Abort, Outside,
         workVars

\* An order that a transaction has updated stays as it is until that one ends.
LEMMA LockedOrdersKept ==
  ASSUME IInv, [Next]_vars,
         NEW d \in Calls, calls[d].op = "sync", calls'[d] = calls[d]
  PROVE  OrderKept(calls[d].order)
<1> DEFINE w == calls[d].order
<1>1. w \in Orders /\ Exists(w)
  BY DEF IInv, SnapshotsHold, OrderNamed
<1>2. ASSUME NEW c \in Calls, CommitCreate(c)
      PROVE  OrderKept(w)
  BY <1>1, <1>2 DEF CommitCreate, OrderKept, IInv, TypeOK
<1>3. ASSUME NEW c \in Calls, CommitTransition(c)
      PROVE  OrderKept(w)
  <2>1. c # d
    BY <1>3 DEF CommitTransition, Finish, NoCall, IInv, TypeOK
  <2>2. calls[c].order # w
    BY <1>3, <2>1 DEF CommitTransition, IInv, OneLock
  <2> QED
    BY <1>3, <2>2 DEF CommitTransition, OrderKept, IInv, TypeOK
<1> QED
  BY <1>1, <1>2, <1>3, OtherStepsKeepOrders

-----------------------------------------------------------------------------
\* What an invocation holds stays true while others move the orders and the
\* request under it.
LEMMA SnapshotsKept ==
  ASSUME IInv, [Next]_vars, NEW d \in Calls, calls'[d] = calls[d]
  PROVE  CallHolds(d)'
<1>1. /\ \/ version' = version /\ vendor' = vendor /\ held \subseteq held'
         \/ version' = version + 1
      /\ version \in Nat
  BY RequestMovesForward DEF IInv, TypeOK, RowTypeOK
<1>2. OrdersMove
  BY OrdersMoveForward
<1>3. calls[d].version \in Nat
  BY DEF IInv, TypeOK, CallStates
<1>4. OrderNamed(calls[d])'
  BY <1>2 DEF OrderNamed, OrdersMove, IInv, SnapshotsHold
<1>5. ASSUME calls[d].op = "transition"
      PROVE  OrderHolds(calls[d])'
  <2> DEFINE w == calls[d].order
  <2>1. w \in Orders /\ Exists(w) /\ OrderHolds(calls[d])
    BY <1>5 DEF IInv, SnapshotsHold, OrderNamed
  <2>2. /\ orders[w].version \in Nat /\ orders'[w].version \in Nat
        /\ orders[w].version <= orders'[w].version
        /\ orders'[w].version = orders[w].version
             => orders'[w].status = orders[w].status
    BY <2>1, <1>2 DEF OrdersMove, OrderRows, IInv, TypeOK
  <2> QED
    BY <2>1, <2>2, <1>3, <1>5 DEF OrderHolds
<1>6. version' = version /\ NoActiveOrder => NoActiveOrder'
  BY <1>1, <1>2 DEF NoActiveOrder, OrdersMove
<1>7. ASSUME calls[d].op = "sync"
      PROVE  SyncHolds(calls[d])'
  <2>1. SyncHolds(calls[d]) /\ OrderKept(calls[d].order)
    BY <1>7, LockedOrdersKept DEF IInv, SnapshotsHold
  <2> QED
    BY <1>1, <1>3, <1>7, <2>1 DEF SyncHolds, OrderKept
<1>8. CreateHolds(calls[d])'
  BY <1>1, <1>3, <1>6 DEF CreateHolds, IInv, SnapshotsHold
<1> QED
  BY <1>4, <1>5, <1>7, <1>8 DEF CallHolds, OrderHolds, SyncHolds

LEMMA SnapshotsHoldNext ==
  IInv /\ [Next]_vars
    => SnapshotsHold' /\ OneLock' /\ calls' \in [Calls -> CallStates]
<1> SUFFICES ASSUME IInv, [Next]_vars
             PROVE  SnapshotsHold' /\ OneLock' /\ calls' \in [Calls -> CallStates]
  OBVIOUS
<1> DEFINE Goal(c) == /\ \A d \in Calls \ {c} : calls'[d] = calls[d]
                      /\ calls' \in [Calls -> CallStates]
                      /\ CallHolds(c)'
                      /\ calls'[c].op = "sync" => ~Locked(calls'[c].order)
<1>1. ASSUME NEW c \in Calls, Finish(c)
      PROVE  Goal(c)
  BY <1>1, RequestTableTyped
     DEF Finish, NoCall, IInv, TypeOK, CallStates, Ops, Assignable,
         CallHolds, OrderNamed, OrderHolds, SyncHolds, CreateHolds
<1>2. ASSUME NEW c \in Calls, CheckNoActiveOrder(c)
      PROVE  Goal(c)
  BY <1>2
     DEF CheckNoActiveOrder, NoActiveOrder, Active, row, IInv, TypeOK,
         CallStates, Ops, SnapshotsHold, CallHolds, OrderNamed, OrderHolds,
         SyncHolds, CreateHolds
<1>3. ASSUME NEW c \in Calls, UpdateOrder(c)
      PROVE  Goal(c)
  <2> DEFINE w == calls[c].order
  <2>1. /\ w \in Orders /\ Exists(w)
        /\ calls[c].version = orders[w].version
        /\ calls[c].from = orders[w].status
    BY <1>3 DEF UpdateOrder, OrderVersionMatches, IInv, SnapshotsHold,
                OrderNamed, OrderHolds
  <2>2. /\ calls' = [calls EXCEPT ![c] =
                        [ op |-> "sync", order |-> w, from |-> status,
                          to |-> calls[c].to, version |-> version,
                          vendor |-> NoVendor ]]
        /\ calls[c].to \in WorkOrderTransitions[orders[w].status]
        /\ orders[w].version < MaxOrderVersion
        /\ ~Locked(w)
        /\ UNCHANGED <<row, orders>>
    BY <1>3, <2>1 DEF UpdateOrder, IInv, TypeOK
  <2>3. calls' \in [Calls -> CallStates]
    BY <2>1, <2>2 DEF IInv, TypeOK, RowTypeOK, CallStates, Ops, Assignable
  <2>4. CallHolds(c)'
    BY <2>1, <2>2
       DEF CallHolds, OrderNamed, OrderHolds, SyncHolds, CreateHolds, Exists,
           row, IInv, TypeOK, RowTypeOK
  <2> QED
    BY <2>2, <2>3, <2>4 DEF IInv, TypeOK
<1>4. ASSUME NEW c \in Calls, Reads(c)
      PROVE  Goal(c)
  BY <1>4, ReadsHold
<1>5. UNCHANGED calls \/ \E c \in Calls : Goal(c)
  <2>1. \/ UNCHANGED calls
        \/ \E c \in Calls : \/ Finish(c) \/ CheckNoActiveOrder(c)
                            \/ UpdateOrder(c) \/ Reads(c)
    BY DEF Next, vars, workVars, Outside, Reads, CommitCreate,
           CommitTransition, CommitTask, CommitAttachment, Abort
  <2> HIDE DEF Goal
  <2> QED
    BY <1>1, <1>2, <1>3, <1>4, <2>1
<1>6. SnapshotsHold' /\ calls' \in [Calls -> CallStates]
  BY <1>5, SnapshotsKept DEF IInv, TypeOK, SnapshotsHold, CallHolds
<1>7. OneLock'
  BY <1>5 DEF OneLock, Locked, IInv
<1> QED
  BY <1>6, <1>7

LEMMA IInvInductive == IInv /\ [Next]_vars => IInv'
<1> SUFFICES ASSUME IInv, [Next]_vars
             PROVE  IInv'
  OBVIOUS
<1>1. TypeOK'
  BY RequestMovesForward, OrdersMoveForward, SnapshotsHoldNext
     DEF TypeOK, OrdersMove
<1>2. AtMostOneActiveOrder'
  BY OrdersMoveForward DEF OrdersMove, AtMostOneActiveOrder, IInv
<1> QED
  BY <1>1, <1>2, SnapshotsHoldNext DEF IInv

LEMMA Invariance == Spec => []IInv
BY InitIInv, IInvInductive, PTL DEF Spec

-----------------------------------------------------------------------------
\* Type correctness, for any number of vendors, orders and invocations.
THEOREM TypeCorrect == Spec => []TypeOK
<1>1. IInv => TypeOK
  BY DEF IInv
<1> QED
  BY <1>1, Invariance, PTL

\* However many admins create work orders for a request at once, and whatever
\* the rest of the backend does to it, it has at most one active order.
THEOREM OneActiveOrder == Spec => []AtMostOneActiveOrder
<1>1. IInv => AtMostOneActiveOrder
  BY DEF IInv
<1> QED
  BY <1>1, Invariance, PTL

\* Work orders implement the abstract row: their writes keep its promises.
THEOREM WorkOrdersImplementRow == Spec => RowSpec
<1>1. Init => RowInit
  BY DEF Init
<1> QED
  BY <1>1, StepsImplementRow, Invariance, PTL DEF Spec, RowSpec

-----------------------------------------------------------------------------
\* The three promises about single steps.  Only CommitCreate and
\* CommitTransition change a version; what the second one moves is known from
\* SyncHolds: its order is locked since its version was compared.
LEMMA TransitionIsCurrent ==
  ASSUME IInv, NEW c \in Calls, CommitTransition(c)
  PROVE  /\ calls[c].op = "sync"
         /\ calls[c].order \in Orders /\ Exists(calls[c].order)
         /\ calls[c].to \in WorkOrderTransitions[orders[calls[c].order].status]
         /\ orders'[calls[c].order].status = calls[c].to
         /\ orders'[calls[c].order].version = orders[calls[c].order].version + 1
         /\ \A x \in Orders \ {calls[c].order} : orders'[x] = orders[x]
<1>1. /\ calls[c].op = "sync"
      /\ calls[c].order \in Orders /\ Exists(calls[c].order)
      /\ calls[c].to \in WorkOrderTransitions[orders[calls[c].order].status]
  BY DEF CommitTransition, IInv, SnapshotsHold, OrderNamed, SyncHolds
<1> QED
  BY <1>1 DEF CommitTransition, IInv, TypeOK

LEMMA CreationIsCurrent ==
  ASSUME IInv, NEW c \in Calls, CommitCreate(c)
  PROVE  \E w \in Orders :
           /\ ~Exists(w)
           /\ orders'[w].status = "ASSIGNED"
           /\ orders'[w].vendor = vendor'
           /\ vendor' \in Vendors
           /\ \A x \in Orders \ {w} : orders'[x] = orders[x]
<1>1. PICK w \in Orders :
        ~Exists(w) /\ orders' = [orders EXCEPT ![w] = NewOrder(calls[c])]
  BY DEF CommitCreate
<1>2. calls[c].version = version /\ vendor' = vendor
  BY DEF CommitCreate, VersionedWrite, VersionMatches, NewVendor
<1>3. calls[c].vendor = vendor /\ calls[c].vendor \in Vendors
  BY <1>2 DEF CommitCreate, IInv, SnapshotsHold, CreateHolds
<1> QED
  BY <1>1, <1>2, <1>3 DEF NewOrder, IInv, TypeOK

\* Orders move along their table, one version at a time.
THEOREM OrdersFollowTable == Spec => OrderFollowsTable
<1> DEFINE A == \A w \in Orders :
                  Exists(w) /\ orders'[w].version # orders[w].version
                    => /\ orders'[w].status \in WorkOrderTransitions[orders[w].status]
                       /\ orders'[w].version = orders[w].version + 1
<1>1. IInv /\ [Next]_vars => [A]_vars
  <2> SUFFICES ASSUME IInv, [Next]_vars
               PROVE  A
    OBVIOUS
  <2>1. ASSUME NEW c \in Calls, CommitCreate(c)
        PROVE  A
    BY <2>1, CreationIsCurrent
  <2>2. ASSUME NEW c \in Calls, CommitTransition(c)
        PROVE  A
    BY <2>2, TransitionIsCurrent
  <2> QED
    BY <2>1, <2>2, OtherStepsKeepOrders DEF OrderKept
<1> QED
  BY <1>1, Invariance, PTL DEF Spec, OrderFollowsTable

\* An order goes to the vendor its request has when the order appears.
THEOREM OrdersGoToAssignedVendor == Spec => OrderGoesToAssignedVendor
<1> DEFINE A == \A w \in Orders : ~Exists(w) /\ Exists(w)'
                  => orders'[w].vendor = vendor' /\ vendor' # NoVendor
<1>1. IInv /\ [Next]_vars => [A]_vars
  <2> SUFFICES ASSUME IInv, [Next]_vars
               PROVE  A
    OBVIOUS
  <2>1. ASSUME NEW c \in Calls, CommitCreate(c)
        PROVE  A
    BY <2>1, CreationIsCurrent, VendorsAssumption DEF Exists
  <2>2. ASSUME NEW c \in Calls, CommitTransition(c)
        PROVE  A
    BY <2>2, TransitionIsCurrent DEF Exists
  <2> QED
    BY <2>1, <2>2, OtherStepsKeepOrders DEF OrderKept, Exists
<1> QED
  BY <1>1, Invariance, PTL DEF Spec, OrderGoesToAssignedVendor

\* Execution and the request move together, from statuses that allow it, unless
\* the request had been read where it belongs and has moved on since.
THEOREM ExecutionMovesRequest == Spec => ExecutionMovesTheRequest
<1> DEFINE Started(w) == \/ /\ status' = "IN_PROGRESS"
                            /\ status \notin {"CREATED", "CANCELLED", "COMPLETED"}
                         \/ MovedOnSinceRead(w, "IN_PROGRESS")
           Completed(w) == \/ /\ status' = "WORK_COMPLETED"
                              /\ status \in {"IN_PROGRESS", "WORK_COMPLETED"}
                           \/ MovedOnSinceRead(w, "WORK_COMPLETED")
           Moved(w) == /\ orders'[w].status = "IN_PROGRESS" => Started(w)
                       /\ orders'[w].status = "COMPLETED" => Completed(w)
           A == held = {status}
                  => \A w \in Orders :
                       orders'[w].version # orders[w].version => Moved(w)
<1>1. IInv /\ [Next]_vars => [A]_vars
  <2> SUFFICES ASSUME IInv, [Next]_vars
               PROVE  A
    OBVIOUS
  <2>1. ASSUME NEW c \in Calls, CommitCreate(c)
        PROVE  A
    BY <2>1, CreationIsCurrent
  <2>2. ASSUME NEW c \in Calls, CommitTransition(c)
        PROVE  A
    <3> DEFINE w == calls[c].order
    <3> SUFFICES ASSUME held = {status}
                 PROVE  Moved(w)
      BY <2>2, TransitionIsCurrent
    <3>1. /\ calls[c].op = "sync" /\ SyncRequest(c)
          /\ orders'[w].status = calls[c].to
      BY <2>2, TransitionIsCurrent DEF CommitTransition
    <3>2. /\ status \in RequestStatuses /\ version \in Nat
          /\ calls[c].version \in Nat
      BY DEF IInv, TypeOK, RowTypeOK, CallStates
    <3>3. \/ calls[c].from = status
          \/ calls[c].version < version
      BY <3>1, <3>2 DEF IInv, SnapshotsHold, SyncHolds
    \* Either the request was read where it belongs, or it is moved there.
    <3>4. ASSUME NEW target, target = RequestTarget(calls[c].to, calls[c].from),
                 target \in {"IN_PROGRESS", "WORK_COMPLETED"}
          PROVE  \/ /\ status' = target
                    /\ status = target \/ target \in RequestTransitions[status]
                 \/ MovedOnSinceRead(w, target)
      <4>1. CASE calls[c].from = target
        BY <3>1, <3>3, <3>4, <4>1 DEF SyncRequest, MovedOnSinceRead, row
      <4>2. CASE calls[c].from # target
        <5>1. VersionedWrite(calls[c].from, target, calls[c].version, Keep)
          BY <3>1, <3>4, <4>2 DEF SyncRequest
        <5>2. calls[c].from = status
          BY <3>2, <3>3, <5>1 DEF VersionedWrite, VersionMatches
        <5> QED
          BY <5>1, <5>2 DEF VersionedWrite, CanTransition
      <4> QED
        BY <4>1, <4>2
    <3>5. CASE calls[c].to = "IN_PROGRESS"
      <4>1. RequestTarget(calls[c].to, calls[c].from) = "IN_PROGRESS"
        BY <3>5 DEF RequestTarget
      <4>2. "IN_PROGRESS" \in RequestTransitions[status]
              => status \notin {"CREATED", "CANCELLED", "COMPLETED"}
        BY DEF RequestTransitions
      <4> QED
        BY <3>1, <3>4, <3>5, <4>1, <4>2
    <3>6. CASE calls[c].to = "COMPLETED"
      <4>1. RequestTarget(calls[c].to, calls[c].from) = "WORK_COMPLETED"
        BY <3>6 DEF RequestTarget
      <4>2. "WORK_COMPLETED" \in RequestTransitions[status]
              => status \in {"IN_PROGRESS", "WORK_COMPLETED"}
        BY <3>2 DEF RequestTransitions, RequestStatuses
      <4> QED
        BY <3>1, <3>4, <3>6, <4>1, <4>2
    <3> QED
      BY <3>1, <3>5, <3>6
  <2> QED
    BY <2>1, <2>2, OtherStepsKeepOrders DEF OrderKept
<1> QED
  BY <1>1, Invariance, PTL DEF Spec, ExecutionMovesTheRequest

-----------------------------------------------------------------------------
(***************************************************************************)
(* Completion.  While nothing was written to an order's checklist after a  *)
(* completion had checked it, the check still holds.                       *)
(***************************************************************************)
Done(w) == ~orders[w].todo /\ orders[w].photo

ChecksHold == \A c \in Calls : Completing(c) => c \in outdated \/ Done(calls[c].order)

\* The inductive invariant of the orders and their checklists.
CompletionIInv == IInv /\ ChecksHold

LEMMA CompletionStepsOrders == [CompletionNext]_completionVars => [Next]_vars
BY DEF CompletionNext, completionVars

\* What is proved of the orders holds of them with their checklists.
LEMMA CompletionsAreOrders == CompletionSpec => Spec
<1>1. CompletionInit => Init
  BY DEF CompletionInit
<1> QED
  BY <1>1, CompletionStepsOrders, PTL DEF CompletionSpec, Spec

\* How a step changes what one invocation holds.
LEMMA CallSteps ==
  ASSUME IInv, [Next]_vars, NEW c \in Calls
  PROVE  \/ calls'[c] = calls[c]
         \/ Reads(c) /\ calls[c].op = "none"
         \/ UpdateOrder(c)
         \/ calls'[c].op \in {"none", "create"}
<1>1. ASSUME NEW d \in Calls, Reads(d)
      PROVE  \/ calls'[c] = calls[c]
             \/ Reads(c) /\ calls[c].op = "none"
  <2>1. calls[d].op = "none"
    BY <1>1 DEF Reads, ReadForCreate, ReadForTransition, ReadForStart,
                ReadForPause, ReadForResume, ReadForComplete, ReadForVerify,
                ReadForCancel, ReadForTask, ReadForUpload, ReadForDelete, Hold
  <2> QED
    BY <1>1, <2>1, ReadsHold
<1>2. ASSUME NEW d \in Calls, UpdateOrder(d)
      PROVE  calls'[c] = calls[c] \/ UpdateOrder(c)
  BY <1>2 DEF UpdateOrder, IInv, TypeOK
<1>3. ASSUME NEW d \in Calls, CheckNoActiveOrder(d) \/ Finish(d)
      PROVE  calls'[c] = calls[c] \/ calls'[c].op \in {"none", "create"}
  BY <1>3 DEF CheckNoActiveOrder, Finish, NoCall, IInv, TypeOK
<1>4. \/ UNCHANGED calls
      \/ \E d \in Calls : \/ Finish(d) \/ CheckNoActiveOrder(d)
                          \/ UpdateOrder(d) \/ Reads(d)
  BY DEF Next, vars, workVars, Outside, Reads, CommitCreate,
         CommitTransition, CommitTask, CommitAttachment, Abort
<1> QED
  BY <1>1, <1>2, <1>3, <1>4

\* The order's UPDATE goes on with the completion it belongs to.
LEMMA UpdatesComplete ==
  ASSUME IInv, NEW c \in Calls, UpdateOrder(c)
  PROVE  /\ calls'[c].order = calls[c].order
         /\ Completing(c)' => Completing(c)
<1>1. /\ calls[c].op = "transition"
      /\ calls[c].from = orders[calls[c].order].status
  BY DEF UpdateOrder, OrderVersionMatches, IInv, SnapshotsHold, OrderHolds
<1>2. /\ calls'[c].order = calls[c].order
      /\ calls'[c].op = "sync"
      /\ calls'[c].to = calls[c].to
      /\ UNCHANGED orders
  BY DEF UpdateOrder, IInv, TypeOK
<1> QED
  BY <1>1, <1>2 DEF Completing

\* Only the handler that checks the checklist begins a completion.
LEMMA CompletionsAreChecked ==
  ASSUME IInv, [Next]_vars, NEW c \in Calls, Completing(c)', ~Completing(c)
  PROVE  Done(calls[c].order)'
<1>1. CASE Reads(c)
  <2>1. PICK w \in Orders, to \in WorkOrderStatuses :
          /\ ReadForTransition(c, w, to)
          /\ \/ ReadForComplete(c, w) \/ orders[w].status # "IN_PROGRESS"
             \/ to # "COMPLETED"
    BY <1>1, WorkOrderTableTyped
       DEF Reads, ReadForCreate, ReadForStart, ReadForPause, ReadForResume,
           ReadForComplete, ReadForVerify, ReadForCancel, ReadForTask,
           ReadForUpload, ReadForDelete, Hold, Completing, IInv, TypeOK
  <2>2. /\ calls'[c].order = w /\ calls'[c].from = orders[w].status
        /\ calls'[c].op = "transition"
        /\ calls'[c].to = to
        /\ UNCHANGED orders
    BY <2>1 DEF ReadForTransition, Hold, IInv, TypeOK
  <2>3. ReadForComplete(c, w)
    BY <2>1, <2>2 DEF Completing
  <2> QED
    BY <2>2, <2>3 DEF ReadForComplete, Done
<1>2. CASE calls'[c] = calls[c]
  <2>1. calls[c].op = "sync"
    BY <1>2 DEF Completing
  <2>2. OrderKept(calls[c].order)
    BY <1>2, <2>1, LockedOrdersKept
  <2> QED
    BY <1>2, <2>1, <2>2 DEF Completing, OrderKept
<1>3. CASE UpdateOrder(c)
  BY <1>3, UpdatesComplete
<1>4. CASE calls'[c].op \in {"none", "create"}
  BY <1>4 DEF Completing
<1> QED
  BY <1>1, <1>2, <1>3, <1>4, CallSteps

\* ... and it stays with its order.
LEMMA CompletionsKeepOrder ==
  ASSUME IInv, [Next]_vars, NEW c \in Calls, Completing(c)', Completing(c)
  PROVE  calls'[c].order = calls[c].order
<1>1. CASE UpdateOrder(c)
  BY <1>1, UpdatesComplete
<1> QED
  BY <1>1, CallSteps DEF Completing

LEMMA ChecksKept ==
  ASSUME CompletionIInv, CompletionNext
  PROVE  ChecksHold'
<1> SUFFICES ASSUME NEW c \in Calls, Completing(c)', c \notin outdated'
             PROVE  Done(calls[c].order)'
  BY DEF ChecksHold
<1>1. CASE Completing(c)
  <2>1. c \notin outdated /\ ~ChecklistChanges(calls[c].order)
    BY <1>1 DEF CompletionNext
  <2>2. calls'[c].order = calls[c].order
    BY <1>1, CompletionsKeepOrder DEF CompletionIInv, CompletionNext
  <2> QED
    BY <1>1, <2>1, <2>2 DEF CompletionIInv, ChecksHold, ChecklistChanges, Done
<1>2. CASE ~Completing(c)
  BY <1>2, CompletionsAreChecked DEF CompletionIInv, CompletionNext
<1> QED
  BY <1>1, <1>2

LEMMA CompletionInvariance == CompletionSpec => []CompletionIInv
<1>1. CompletionInit => CompletionIInv
  BY InitIInv
     DEF CompletionInit, CompletionIInv, ChecksHold, Completing, Init, NoCall
<1>2. CompletionIInv /\ [CompletionNext]_completionVars => CompletionIInv'
  <2> SUFFICES ASSUME CompletionIInv, [CompletionNext]_completionVars
               PROVE  CompletionIInv'
    OBVIOUS
  <2>1. IInv'
    BY CompletionStepsOrders, IInvInductive DEF CompletionIInv
  <2>2. CASE UNCHANGED completionVars
    BY <2>1, <2>2 DEF completionVars, vars, CompletionIInv, ChecksHold, Completing, Done
  <2> QED
    BY <2>1, <2>2, ChecksKept DEF CompletionIInv
<1> QED
  BY <1>1, <1>2, PTL DEF CompletionSpec

\* An order is completed with every task done and a photo, unless its checklist
\* was written to between the check and the commit.
THEOREM OrdersCompletedDone == CompletionSpec => OrdersAreCompletedDone
<1> DEFINE Excused(w) == \/ ~orders'[w].todo /\ orders'[w].photo
                         \/ \E c \in outdated :
                              calls[c].order = w /\ calls'[c].op = "none"
           A == \A w \in Orders :
                  orders[w].status = "IN_PROGRESS" /\ orders'[w].status = "COMPLETED"
                    => Excused(w)
<1>1. CompletionIInv /\ [CompletionNext]_completionVars => [A]_completionVars
  <2> SUFFICES ASSUME CompletionIInv, [CompletionNext]_completionVars,
                      NEW w \in Orders,
                      orders[w].status = "IN_PROGRESS",
                      orders'[w].status = "COMPLETED"
               PROVE  Excused(w)
    OBVIOUS
  <2>1. IInv /\ [Next]_vars
    BY CompletionStepsOrders DEF CompletionIInv
  <2>2. ASSUME NEW c \in Calls, CommitCreate(c)
        PROVE  FALSE
    BY <2>1, <2>2, CreationIsCurrent DEF Exists
  <2>3. ASSUME NEW c \in Calls, CommitTransition(c)
        PROVE  Excused(w)
    <3>1. /\ calls[c].op = "sync" /\ calls[c].order \in Orders
          /\ orders'[calls[c].order].status = calls[c].to
          /\ \A x \in Orders \ {calls[c].order} : orders'[x] = orders[x]
      BY <2>1, <2>3, TransitionIsCurrent
    <3>2. calls[c].order = w /\ calls[c].to = "COMPLETED"
      BY <3>1
    <3>3. Completing(c)
      BY <3>1, <3>2 DEF Completing
    <3>4. CASE c \in outdated
      BY <2>1, <2>3, <3>2, <3>4
         DEF CommitTransition, Finish, NoCall, IInv, TypeOK
    <3>5. CASE Done(w)
      BY <2>1, <2>3, <3>2, <3>5 DEF CommitTransition, Done, IInv, TypeOK
    <3> QED
      BY <3>2, <3>3, <3>4, <3>5 DEF CompletionIInv, ChecksHold
  <2> QED
    BY <2>1, <2>2, <2>3, OtherStepsKeepOrders DEF OrderKept
<1> QED
  BY CompletionInvariance, <1>1, PTL DEF CompletionSpec, OrdersAreCompletedDone

=============================================================================
