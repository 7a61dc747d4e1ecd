-------------------------- MODULE RequestRow_proofs --------------------------
(***************************************************************************)
(* Facts about the abstract request row that every component sharing it    *)
(* relies on.                                                              *)
(***************************************************************************)
EXTENDS RequestRow, TLAPS

\* The statuses are the seventeen names of the table, and what the table allows
\* are again statuses.
LEMMA RequestTableTyped ==
  /\ RequestStatuses =
       { "CREATED", "ASSIGNED", "CANCELLED", "SURVEY_PENDING",
         "SURVEY_SUBMITTED", "SURVEY_APPROVED", "ESTIMATE_CREATED",
         "AWAITING_APPROVAL", "ADVANCE_PENDING", "ADVANCE_RECEIVED",
         "SCHEDULED", "IN_PROGRESS", "WORK_COMPLETED", "QUALITY_CHECK",
         "FINAL_PAYMENT_PENDING", "COMPLETED", "ARCHIVED" }
  /\ \A s \in RequestStatuses : RequestTransitions[s] \subseteq RequestStatuses
<1>1. RequestStatuses =
       { "CREATED", "ASSIGNED", "CANCELLED", "SURVEY_PENDING",
         "SURVEY_SUBMITTED", "SURVEY_APPROVED", "ESTIMATE_CREATED",
         "AWAITING_APPROVAL", "ADVANCE_PENDING", "ADVANCE_RECEIVED",
         "SCHEDULED", "IN_PROGRESS", "WORK_COMPLETED", "QUALITY_CHECK",
         "FINAL_PAYMENT_PENDING", "COMPLETED", "ARCHIVED" }
  BY DEF RequestStatuses, RequestTransitions
<1>2. \A s \in RequestStatuses : RequestTransitions[s] \subseteq RequestStatuses
  BY <1>1 DEF RequestTransitions
<1> QED
  BY <1>1, <1>2

\* A versioned write keeps the row well typed and moves it one version on.
LEMMA VersionedWriteTyped ==
  ASSUME RowTypeOK,
         NEW from, NEW to \in RequestStatuses,
         NEW expected, NEW assigned \in Assignable \cup {Keep},
         VersionedWrite(from, to, expected, assigned)
  PROVE  RowTypeOK' /\ version' = version + 1 /\ held' = {status'}
BY MaxVersionAssumption
   DEF VersionedWrite, VersionMatches, NewVersion, NewVendor, RowTypeOK,
       Assignable

\* Every step of the row keeps it well typed.
LEMMA RowStepTyped == RowTypeOK /\ [RowNext]_row => RowTypeOK'
<1> SUFFICES ASSUME RowTypeOK, [RowNext]_row
             PROVE  RowTypeOK'
  OBVIOUS
<1>1. CASE Transition
  BY <1>1, VersionedWriteTyped DEF Transition, Assignable
<1>2. CASE Unassign
  BY <1>2, RequestTableTyped, VersionedWriteTyped DEF Unassign, Assignable
<1>3. CASE \E to \in DocumentStatuses : DocumentSync(to)
  BY <1>3, RequestTableTyped DEF DocumentSync, DocumentStatuses, RowTypeOK
<1>4. CASE UNCHANGED row
  BY <1>4 DEF row, RowTypeOK
<1> QED
  BY <1>1, <1>2, <1>3, <1>4 DEF RowNext

\* A step of the row either moves to the next version, or keeps the version and
\* with it the vendor and everything the row has held at that version.  The
\* vendor changes with an assignment or a return to the pool only.
LEMMA RowMovesForward ==
  RowTypeOK /\ [RowNext]_row
    => /\ \/ version' = version /\ vendor' = vendor /\ held \subseteq held'
          \/ version' = version + 1
       /\ vendor' # vendor
            => \/ vendor' \in Vendors /\ status' = "ASSIGNED"
               \/ vendor' = NoVendor  /\ status' = "CREATED"
<1> SUFFICES ASSUME RowTypeOK, [RowNext]_row
             PROVE  /\ \/ /\ version' = version
                          /\ vendor' = vendor
                          /\ held \subseteq held'
                       \/ version' = version + 1
                    /\ vendor' # vendor
                         => \/ vendor' \in Vendors /\ status' = "ASSIGNED"
                            \/ vendor' = NoVendor  /\ status' = "CREATED"
  OBVIOUS
<1>1. CASE Transition
  BY <1>1 DEF Transition, VersionedWrite, NewVersion, NewVendor
<1>2. CASE Unassign
  BY <1>2 DEF Unassign, VersionedWrite, NewVersion, NewVendor
<1>3. CASE \E to \in DocumentStatuses : DocumentSync(to)
  BY <1>3 DEF DocumentSync
<1>4. CASE UNCHANGED row
  BY <1>4 DEF row
<1> QED
  BY <1>1, <1>2, <1>3, <1>4 DEF RowNext

\* The abstract row is type correct.
THEOREM RowTypeCorrect == RowSpec => []RowTypeOK
<1>1. RowInit => RowTypeOK
  BY RequestTableTyped, MaxVersionAssumption
     DEF RowInit, RowTypeOK, Assignable
<1> QED
  BY <1>1, RowStepTyped, PTL DEF RowSpec

=============================================================================
