----------------------------- MODULE RequestRow -----------------------------
(***************************************************************************)
(* The service_requests row of one request, and what the whole backend     *)
(* promises about every write to it.                                       *)
(*                                                                         *)
(* Every handler addresses one row by its id, so one row is modelled.  It  *)
(* has three columns that decide anything: status, assignedVendorId and    *)
(* the optimistic-concurrency version.  "held" is not a column: it records *)
(* which statuses the row has had since its version last changed, which is *)
(* exactly what a handler that read the row at this version may have seen. *)
(*                                                                         *)
(* There are two ways to write the row.  RequestStateService updates it    *)
(* with WHERE id AND version and increments the version; the survey and    *)
(* estimate state services overwrite the status and leave the version      *)
(* alone.  RowSpec is the abstract specification built from the two: the   *)
(* components that write the row are shown to implement it, and those that *)
(* only share the row take its steps as their environment.                 *)
(***************************************************************************)
EXTENDS StatusMachines, Naturals

CONSTANTS
  Vendors,      \* vendor profiles a request can be assigned to
  NoVendor,     \* assignedVendorId = null
  Keep,         \* "assignedVendorId" left undefined: the column is not written
  MaxVersion    \* bound: the row's version stops here

ASSUME VendorsAssumption == NoVendor \notin Vendors /\ Keep \notin Vendors
ASSUME KeepAssumption == Keep # NoVendor
ASSUME MaxVersionAssumption == MaxVersion \in Nat \ {0}

VARIABLES
  status,       \* ServiceRequest.status
  vendor,       \* ServiceRequest.assignedVendorId
  version,      \* ServiceRequest.version
  held          \* auxiliary: statuses the row has had at this version

row == <<status, vendor, version, held>>

Assignable == Vendors \cup {NoVendor}

\* The status a survey or an estimate forces on the request.
DocumentStatuses == {"SURVEY_SUBMITTED", "SURVEY_APPROVED", "AWAITING_APPROVAL"}

RowTypeOK ==
  /\ status \in RequestStatuses
  /\ vendor \in Assignable
  /\ version \in 1..MaxVersion
  /\ held \in SUBSET RequestStatuses
  /\ status \in held

-----------------------------------------------------------------------------
\* createRequestCustomer: the new row.
RowInit ==
  /\ status = "CREATED"
  /\ vendor = NoVendor
  /\ version = 1
  /\ held = {"CREATED"}

\* canTransition.
AnyTransition(from, to) == TRUE
CanTransition(from, to) == to \in RequestTransitions[from]

\* The WHERE clause of the UPDATE, besides the id.
VersionIgnored(expected) == TRUE
VersionMatches(expected) == version = expected

\* The version the UPDATE stores.
VersionKept(expected) == expected
NewVersion(expected) == expected + 1

\* The vendor the UPDATE stores: only a defined assignedVendorId is written.
UndefinedStored(assigned) == assigned
NewVendor(assigned) == IF assigned = Keep THEN vendor ELSE assigned

\* RequestStateService.transitionStatus: the table is consulted with the status
\* the caller passes, the UPDATE matches only the version the caller passes.
\* When either fails it throws and the caller's transaction rolls back.
VersionedWrite(from, to, expected, assigned) ==
  /\ CanTransition(from, to)
  /\ VersionMatches(expected)
  /\ expected < MaxVersion
  /\ status' = to
  /\ version' = NewVersion(expected)
  /\ vendor' = NewVendor(assigned)
  /\ held' = {to}

\* The status the survey and estimate services write into the request when a
\* document moves: no table, no version in the WHERE, no new version.
DocumentSync(to) ==
  /\ status' = to
  /\ held' = held \cup {to}
  /\ UNCHANGED <<vendor, version>>

-----------------------------------------------------------------------------
(***************************************************************************)
(* What the backend promises about the row.  A versioned write is legal    *)
(* from SOME status the row has had at its present version (not always the *)
(* present one: a document may have overwritten it since), and gives the   *)
(* row a vendor only together with ASSIGNED.  A vendor's rejection re-     *)
(* reads the version after its check, so it may hit any status.            *)
(***************************************************************************)
Transition ==
  \E from \in held, to \in RequestStatuses, assigned \in Vendors \cup {Keep} :
    /\ assigned \in Vendors => to = "ASSIGNED"
    /\ VersionedWrite(from, to, version, assigned)

Unassign == VersionedWrite("ASSIGNED", "CREATED", version, NoVendor)

RowNext ==
  \/ Transition
  \/ Unassign
  \/ \E to \in DocumentStatuses : DocumentSync(to)

RowSpec == RowInit /\ [][RowNext]_row

=============================================================================
