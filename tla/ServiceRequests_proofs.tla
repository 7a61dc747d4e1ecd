----------------------- MODULE ServiceRequests_proofs -----------------------
(***************************************************************************)
(* What the handlers of one service request guarantee for any number of    *)
(* vendors, of concurrent invocations and of versions.                     *)
(***************************************************************************)
EXTENDS ServiceRequests, RequestRow_proofs

USE VendorsAssumption, KeepAssumption, MaxVersionAssumption,
    AdminTargetsAssumption

\* A document's write keeps the row well typed.
LEMMA DocumentSyncTyped ==
  ASSUME RowTypeOK, NEW to \in DocumentStatuses, DocumentSync(to)
  PROVE  RowTypeOK'
BY RequestTableTyped DEF DocumentSync, DocumentStatuses, RowTypeOK

\* Every read leaves the row alone and stores a well-typed snapshot.
LEMMA HoldTyped ==
  ASSUME TypeOK, NEW c \in Calls, NEW op \in Ops,
         NEW from \in RequestStatuses, NEW to \in RequestStatuses,
         NEW assigned \in Assignable \cup {Keep},
         NEW read \in 0..MaxVersion,
         Hold(c, op, from, to, assigned, read)
  PROVE  TypeOK'
BY DEF Hold, TypeOK, CallStates, RowTypeOK, row

\* An invocation that ends leaves the others as they are.
LEMMA FinishTyped ==
  ASSUME TypeOK, NEW c \in Calls, Finish(c)
  PROVE  calls' \in [Calls -> CallStates]
BY RequestTableTyped DEF Finish, TypeOK, CallStates, NoCall, Ops, Assignable

-----------------------------------------------------------------------------
\* The steps that start an invocation.
Reads(c) ==
  \/ ReadForCancel(c)       \/ ReadForAssign(c)
  \/ ReadForChangeStatus(c) \/ ReadForSchedule(c)
  \/ ReadForAccept(c)       \/ ReadForReject(c)

LEMMA ReadsTyped ==
  ASSUME TypeOK, NEW c \in Calls, Reads(c)
  PROVE  TypeOK'
<1> DEFINE Typed == /\ status \in RequestStatuses
                    /\ {"CREATED", "ASSIGNED", "SCHEDULED", "CANCELLED"}
                         \subseteq RequestStatuses
                    /\ {"transition", "accept", "rejecting"} \subseteq Ops
                    /\ Vendors \cup {NoVendor, Keep}
                         \subseteq Assignable \cup {Keep}
                    /\ version \in 0..MaxVersion /\ 0 \in 0..MaxVersion
<1>0. Typed
  BY RequestTableTyped DEF TypeOK, RowTypeOK, Ops, Assignable
<1>1. CASE ReadForCancel(c)
  BY <1>0, <1>1, HoldTyped DEF ReadForCancel
<1>2. CASE ReadForAssign(c)
  BY <1>0, <1>2, HoldTyped DEF ReadForAssign
<1>3. CASE ReadForChangeStatus(c)
  BY <1>0, <1>3, HoldTyped DEF ReadForChangeStatus
<1>4. CASE ReadForSchedule(c)
  BY <1>0, <1>4, HoldTyped DEF ReadForSchedule
<1>5. CASE ReadForAccept(c)
  BY <1>0, <1>5, HoldTyped DEF ReadForAccept
<1>6. CASE ReadForReject(c)
  BY <1>0, <1>6, HoldTyped DEF ReadForReject
<1> QED
  BY <1>1, <1>2, <1>3, <1>4, <1>5, <1>6 DEF Reads

LEMMA TypeOKInductive == TypeOK /\ [Next]_vars => TypeOK'
<1> SUFFICES ASSUME TypeOK, [Next]_vars
             PROVE  TypeOK'
  OBVIOUS
<1>1. ASSUME NEW c \in Calls, Reads(c)
      PROVE  TypeOK'
  BY <1>1, ReadsTyped
<1>2. ASSUME NEW c \in Calls, CommitTransition(c) \/ CommitReject(c)
      PROVE  TypeOK'
  <2>1. /\ VersionedWrite(calls[c].from, calls[c].to,
                          calls[c].version, calls[c].vendor)
        /\ logged' = calls[c].to
        /\ Finish(c)
    BY <1>2 DEF CommitTransition, CommitReject, Log
  <2>2. /\ calls[c].from \in RequestStatuses
        /\ calls[c].to \in RequestStatuses
        /\ calls[c].vendor \in Assignable \cup {Keep}
    BY DEF TypeOK, CallStates
  <2>3. RowTypeOK'
    BY <2>1, <2>2, VersionedWriteTyped DEF TypeOK
  <2> QED
    BY <2>1, <2>2, <2>3, FinishTyped DEF TypeOK
<1>3. ASSUME NEW c \in Calls, CommitAccept(c)
      PROVE  TypeOK'
  BY <1>3, FinishTyped, RequestTableTyped
     DEF CommitAccept, Log, TypeOK, RowTypeOK, row
<1>4. ASSUME NEW c \in Calls, ReadVersionForReject(c)
      PROVE  TypeOK'
  BY <1>4 DEF ReadVersionForReject, TypeOK, RowTypeOK, row, CallStates, Ops
<1>5. ASSUME NEW c \in Calls, Abort(c)
      PROVE  TypeOK'
  BY <1>5, FinishTyped DEF Abort, TypeOK, RowTypeOK, row
<1>6. ASSUME NEW to \in ExecutionTargets, ExecutionSync(to)
      PROVE  TypeOK'
  <2>1. to \in RequestStatuses
    BY RequestTableTyped DEF ExecutionTargets
  <2>2. RowTypeOK'
    BY <1>6, <2>1, VersionedWriteTyped DEF ExecutionSync, TypeOK, RowTypeOK
  <2> QED
    BY <1>6, <2>1, <2>2 DEF ExecutionSync, Log, TypeOK
<1>7. ASSUME NEW to \in DocumentStatuses, SyncFromDocument(to)
      PROVE  TypeOK'
  BY <1>7, DocumentSyncTyped, RequestTableTyped
     DEF SyncFromDocument, Log, TypeOK, DocumentStatuses
<1>8. CASE UNCHANGED vars
  BY <1>8 DEF vars, TypeOK, RowTypeOK
<1> QED
  BY <1>1, <1>2, <1>3, <1>4, <1>5, <1>6, <1>7, <1>8 DEF Next, Reads

\* Type correctness, for every set of vendors and of concurrent invocations.
THEOREM TypeCorrect == Spec => []TypeOK
<1>1. Init => TypeOK
  BY RequestTableTyped
     DEF Init, RowInit, TypeOK, RowTypeOK, CallStates, NoCall, Ops, Assignable
<1> QED
  BY <1>1, TypeOKInductive, PTL DEF Spec

-----------------------------------------------------------------------------
\* The row's version never decreases, and at one version the statuses the row
\* has held only accumulate.
LEMMA VersionsMoveForward ==
  TypeOK /\ [Next]_vars
    => \/ version' = version /\ held \subseteq held'
       \/ version' = version + 1
<1> SUFFICES ASSUME TypeOK, [Next]_vars
             PROVE  \/ version' = version /\ held \subseteq held'
                    \/ version' = version + 1
  OBVIOUS
<1>1. ASSUME NEW from, NEW to, NEW expected, NEW assigned,
             VersionedWrite(from, to, expected, assigned)
      PROVE  version' = version + 1
  BY <1>1 DEF VersionedWrite, VersionMatches, NewVersion
<1>2. ASSUME NEW to, DocumentSync(to)
      PROVE  version' = version /\ held \subseteq held'
  BY <1>2 DEF DocumentSync
<1>3. \/ UNCHANGED row
      \/ \E from, to, expected, assigned :
           VersionedWrite(from, to, expected, assigned)
      \/ \E to : DocumentSync(to)
  BY DEF Next, vars, row, Hold, ReadForCancel, ReadForAssign,
         ReadForChangeStatus, ReadForSchedule, ReadForAccept, ReadForReject,
         ReadVersionForReject, Abort, CommitTransition, CommitReject,
         CommitAccept, ExecutionSync, SyncFromDocument
<1> QED
  BY <1>1, <1>2, <1>3 DEF row

\* The optimistic check is sound: a write that still matches its version was
\* decided on a status the row has had at that version.
THEOREM SnapshotsAreHeld == Spec => []SnapshotsHeld
<1>1. Init => SnapshotsHeld
  BY DEF Init, RowInit, SnapshotsHeld, NoCall
<1>2. TypeOK /\ SnapshotsHeld /\ [Next]_vars => SnapshotsHeld'
  <2> SUFFICES ASSUME TypeOK, SnapshotsHeld, [Next]_vars, NEW d \in Calls
               PROVE  /\ calls'[d].version <= version'
                      /\ calls'[d].op = "transition"
                           /\ calls'[d].version = version'
                           => calls'[d].from \in held'
    BY DEF SnapshotsHeld
  <2>1. CASE calls'[d] = calls[d]
    BY <2>1, VersionsMoveForward DEF SnapshotsHeld, TypeOK, RowTypeOK, CallStates
  <2>2. CASE calls'[d] = NoCall
    BY <2>2, VersionsMoveForward DEF NoCall, TypeOK, RowTypeOK
  <2>3. CASE ReadVersionForReject(d)
    BY <2>3 DEF ReadVersionForReject, row, TypeOK, RowTypeOK, CallStates
  <2>4. ASSUME NEW op, NEW to, NEW assigned,
               \/ Hold(d, op, status, to, assigned, version)
               \/ op # "transition" /\ \E from : Hold(d, op, from, to, assigned, 0)
        PROVE  /\ calls'[d].version <= version'
               /\ calls'[d].op = "transition" /\ calls'[d].version = version'
                    => calls'[d].from \in held'
    BY <2>4 DEF Hold, row, TypeOK, RowTypeOK, CallStates
  <2>5. \/ calls'[d] = calls[d]
        \/ calls'[d] = NoCall
        \/ ReadVersionForReject(d)
        \/ \E op, to, assigned :
             \/ Hold(d, op, status, to, assigned, version)
             \/ op # "transition" /\ \E from : Hold(d, op, from, to, assigned, 0)
    <3>1. CASE UNCHANGED calls
      BY <3>1
    <3>2. ASSUME NEW c \in Calls,
                 Finish(c) \/ ReadVersionForReject(c) \/ Reads(c)
          PROVE  c = d \/ calls'[d] = calls[d]
      BY <3>2 DEF TypeOK, Finish, ReadVersionForReject, Reads, Hold,
                  ReadForCancel, ReadForAssign, ReadForChangeStatus,
                  ReadForSchedule, ReadForAccept, ReadForReject
    <3>3. CASE Finish(d)
      BY <3>3 DEF Finish, TypeOK
    <3>4. CASE Reads(d)
      BY <3>4 DEF Reads, ReadForCancel, ReadForAssign, ReadForChangeStatus,
                  ReadForSchedule, ReadForAccept, ReadForReject
    <3> QED
      BY <3>1, <3>2, <3>3, <3>4
         DEF Next, vars, Reads, CommitTransition, CommitAccept, CommitReject,
             Abort, ExecutionSync, SyncFromDocument
  <2> QED
    BY <2>1, <2>2, <2>3, <2>4, <2>5
<1> QED
  BY <1>1, <1>2, TypeCorrect, PTL DEF Spec

-----------------------------------------------------------------------------
\* What an invocation about to write carries: only an assignment names a vendor,
\* and a rejection always goes from ASSIGNED to CREATED and clears it.
CallShape(call) ==
  /\ call.op = "transition"
       => \/ call.vendor = Keep
          \/ call.vendor \in Vendors /\ call.to = "ASSIGNED"
  /\ call.op \in {"rejecting", "reject"}
       => call.from = "ASSIGNED" /\ call.to = "CREATED" /\ call.vendor = NoVendor

CallsShaped == \A c \in Calls : CallShape(calls[c])

LEMMA CallsShapedInductive ==
  TypeOK /\ CallsShaped /\ [Next]_vars => CallsShaped'
<1> SUFFICES ASSUME TypeOK, CallsShaped, [Next]_vars
             PROVE  CallsShaped'
  OBVIOUS
<1>1. ASSUME NEW c \in Calls, Reads(c)
      PROVE  CallsShaped'
  BY <1>1 DEF CallsShaped, CallShape, TypeOK, Reads, Hold,
              ReadForCancel, ReadForAssign, ReadForChangeStatus,
              ReadForSchedule, ReadForAccept, ReadForReject
<1>2. ASSUME NEW c \in Calls, Finish(c)
      PROVE  CallsShaped'
  BY <1>2 DEF CallsShaped, CallShape, TypeOK, Finish, NoCall
<1>3. ASSUME NEW c \in Calls, ReadVersionForReject(c)
      PROVE  CallsShaped'
  BY <1>3 DEF CallsShaped, CallShape, TypeOK, ReadVersionForReject
<1>4. CASE UNCHANGED calls
  BY <1>4 DEF CallsShaped
<1> QED
  BY <1>1, <1>2, <1>3, <1>4
     DEF Next, vars, Reads, CommitTransition, CommitAccept, CommitReject,
         Abort, ExecutionSync, SyncFromDocument

LEMMA CallsAreShaped == Spec => []CallsShaped
<1>1. Init => CallsShaped
  BY DEF Init, CallsShaped, CallShape, NoCall
<1> QED
  BY <1>1, CallsShapedInductive, TypeCorrect, PTL DEF Spec

\* Every step of the handlers, and of the components that write beside them, is
\* a step of the abstract row or leaves it alone.
LEMMA StepsImplementRow ==
  TypeOK /\ SnapshotsHeld /\ CallsShaped /\ [Next]_vars => [RowNext]_row
<1> SUFFICES ASSUME TypeOK, SnapshotsHeld, CallsShaped, [Next]_vars
             PROVE  [RowNext]_row
  OBVIOUS
<1>1. ASSUME NEW c \in Calls, CommitTransition(c)
      PROVE  Transition
  <2> DEFINE from == calls[c].from
             to == calls[c].to
             assigned == calls[c].vendor
  <2>1. VersionedWrite(from, to, calls[c].version, assigned)
    BY <1>1 DEF CommitTransition
  <2>2. calls[c].version = version /\ from \in held
    BY <1>1, <2>1
       DEF CommitTransition, VersionedWrite, VersionMatches, SnapshotsHeld
  <2>3. to \in RequestStatuses /\ assigned \in Vendors \cup {Keep}
    BY <1>1 DEF CommitTransition, TypeOK, CallStates, CallsShaped, CallShape
  <2>4. assigned \in Vendors => to = "ASSIGNED"
    BY <1>1 DEF CommitTransition, CallsShaped, CallShape
  <2> QED
    BY <2>1, <2>2, <2>3, <2>4 DEF Transition
<1>2. ASSUME NEW c \in Calls, CommitReject(c)
      PROVE  Unassign
  <2>1. VersionedWrite("ASSIGNED", "CREATED", calls[c].version, NoVendor)
    BY <1>2 DEF CommitReject, CallsShaped, CallShape
  <2> QED
    BY <2>1 DEF Unassign, VersionedWrite, VersionMatches, NewVersion
<1>3. ASSUME NEW to \in ExecutionTargets, ExecutionSync(to)
      PROVE  Transition
  <2>1. status \in held /\ to \in RequestStatuses /\ Keep \notin Vendors
    BY RequestTableTyped DEF TypeOK, RowTypeOK, ExecutionTargets
  <2> QED
    BY <1>3, <2>1 DEF ExecutionSync, Transition
<1>4. ASSUME NEW to \in DocumentStatuses, SyncFromDocument(to)
      PROVE  RowNext
  BY <1>4 DEF SyncFromDocument, RowNext
<1>5. ASSUME NEW c \in Calls,
             Reads(c) \/ CommitAccept(c) \/ ReadVersionForReject(c) \/ Abort(c)
      PROVE  UNCHANGED row
  BY <1>5 DEF Reads, Hold, ReadForCancel, ReadForAssign, ReadForChangeStatus,
              ReadForSchedule, ReadForAccept, ReadForReject, CommitAccept,
              ReadVersionForReject, Abort
<1> QED
  BY <1>1, <1>2, <1>3, <1>4, <1>5 DEF Next, Reads, RowNext, vars, row

\* The handlers implement the abstract row: what other components may assume.
THEOREM HandlersImplementRow == Spec => RowSpec
<1>1. Init => RowInit
  BY DEF Init
<1> QED
  BY <1>1, StepsImplementRow, TypeCorrect, SnapshotsAreHeld, CallsAreShaped, PTL
     DEF Spec, RowSpec

\* The vendor of a request changes only with an assignment or a return to the
\* pool, and never without a new version.
THEOREM VendorChangesVersioned == Spec => VendorChangesAreVersioned
<1> DEFINE Versioned ==
      vendor' # vendor
      => /\ version' > version
         /\ \/ vendor' \in Vendors /\ status' = "ASSIGNED"
            \/ vendor' = NoVendor  /\ status' = "CREATED"
<1>1. TypeOK /\ [RowNext]_row => Versioned
  BY RowMovesForward DEF TypeOK, RowTypeOK
<1>2. TypeOK /\ SnapshotsHeld /\ CallsShaped /\ [Next]_vars => [Versioned]_vars
  BY <1>1, StepsImplementRow
<1> QED
  BY <1>2, TypeCorrect, SnapshotsAreHeld, CallsAreShaped, PTL
     DEF Spec, VendorChangesAreVersioned

\* A versioned step follows the table from the real status, unless a document
\* has overwritten it at this version or the step is a rejection's.
THEOREM VersionedStepsLegal == Spec => VersionedStepsFollowTable
<1> DEFINE Rejecting == \E c \in Calls : calls[c].op = "reject" /\ calls'[c] = NoCall
           Legal == version' # version /\ held = {status} /\ ~Rejecting
                      => status' \in RequestTransitions[status]
<1>1. TypeOK /\ SnapshotsHeld /\ CallsShaped /\ [Next]_vars => [Legal]_vars
  <2> SUFFICES ASSUME TypeOK, SnapshotsHeld, CallsShaped, [Next]_vars,
                      version' # version, held = {status}, ~Rejecting
               PROVE  status' \in RequestTransitions[status]
    OBVIOUS
  <2>1. ~ \E c \in Calls : CommitReject(c)
    BY DEF CommitReject, Finish, TypeOK
  <2>2. ASSUME NEW c \in Calls, CommitTransition(c)
        PROVE  status' \in RequestTransitions[status]
    BY <2>2 DEF CommitTransition, VersionedWrite, VersionMatches,
                CanTransition, SnapshotsHeld
  <2>3. ASSUME NEW to, ExecutionSync(to)
        PROVE  status' \in RequestTransitions[status]
    BY <2>3 DEF ExecutionSync, VersionedWrite, CanTransition
  <2> QED
    BY <2>1, <2>2, <2>3
       DEF Next, vars, row, Reads, Hold, ReadForCancel, ReadForAssign,
           ReadForChangeStatus, ReadForSchedule, ReadForAccept, ReadForReject,
           CommitAccept, ReadVersionForReject, Abort, SyncFromDocument,
           DocumentSync
<1> QED
  BY <1>1, TypeCorrect, SnapshotsAreHeld, CallsAreShaped, PTL
     DEF Spec, VersionedStepsFollowTable

\* The newest history row names the status of the request, late acceptances
\* apart.
THEOREM HistoryNamesTheStatus == Spec => []HistoryNamesStatus
<1>1. Init => HistoryNamesStatus
  BY DEF Init, RowInit, HistoryNamesStatus
<1>2. HistoryNamesStatus /\ [Next]_vars => HistoryNamesStatus'
  BY DEF HistoryNamesStatus, Next, vars, row, Log, Hold, ReadForCancel,
         ReadForAssign, ReadForChangeStatus, ReadForSchedule, ReadForAccept,
         ReadForReject, ReadVersionForReject, Abort, CommitTransition,
         CommitReject, CommitAccept, ExecutionSync, SyncFromDocument,
         VersionedWrite, DocumentSync
<1> QED
  BY <1>1, <1>2, PTL DEF Spec

=============================================================================
