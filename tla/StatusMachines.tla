--------------------------- MODULE StatusMachines ---------------------------
(***************************************************************************)
(* The transition tables of the backend, one per entity with a status.     *)
(* Each is a record from a status to the set of statuses a "transitionSta- *)
(* tus" service lets it move to (canTransition is membership in that set). *)
(***************************************************************************)

\* ALLOWED_TRANSITIONS of request-state.service.ts.
RequestTransitions ==
  [ CREATED               |-> {"ASSIGNED", "CANCELLED"},
    ASSIGNED              |-> {"ASSIGNED", "CREATED", "SCHEDULED",
                               "IN_PROGRESS", "CANCELLED"},
    CANCELLED             |-> {},
    SURVEY_PENDING        |-> {"SURVEY_SUBMITTED", "CANCELLED"},
    SURVEY_SUBMITTED      |-> {"SURVEY_APPROVED", "CANCELLED"},
    SURVEY_APPROVED       |-> {"ESTIMATE_CREATED", "SCHEDULED",
                               "IN_PROGRESS", "CANCELLED"},
    ESTIMATE_CREATED      |-> {"AWAITING_APPROVAL", "CANCELLED"},
    AWAITING_APPROVAL     |-> {"SCHEDULED", "IN_PROGRESS", "CANCELLED"},
    ADVANCE_PENDING       |-> {"ADVANCE_RECEIVED", "CANCELLED"},
    ADVANCE_RECEIVED      |-> {"SCHEDULED", "IN_PROGRESS", "CANCELLED"},
    SCHEDULED             |-> {"IN_PROGRESS", "CANCELLED"},
    IN_PROGRESS           |-> {"WORK_COMPLETED", "CANCELLED"},
    WORK_COMPLETED        |-> {"QUALITY_CHECK", "COMPLETED", "CANCELLED"},
    QUALITY_CHECK         |-> {"FINAL_PAYMENT_PENDING", "COMPLETED",
                               "CANCELLED"},
    FINAL_PAYMENT_PENDING |-> {"COMPLETED", "CANCELLED"},
    COMPLETED             |-> {"ARCHIVED"},
    ARCHIVED              |-> {} ]

RequestStatuses == DOMAIN RequestTransitions

\* ALLOWED_WORK_ORDER_TRANSITIONS of work-order-state.service.ts.  The step
\* from COMPLETED to itself is the verification milestone.
WorkOrderTransitions ==
  [ ASSIGNED    |-> {"SCHEDULED", "IN_PROGRESS", "CANCELLED"},
    SCHEDULED   |-> {"IN_PROGRESS", "CANCELLED"},
    IN_PROGRESS |-> {"ON_HOLD", "COMPLETED", "CANCELLED"},
    ON_HOLD     |-> {"IN_PROGRESS", "CANCELLED"},
    COMPLETED   |-> {"COMPLETED"},
    CANCELLED   |-> {} ]

WorkOrderStatuses == DOMAIN WorkOrderTransitions

\* ALLOWED_SURVEY_TRANSITIONS of survey-state.service.ts.
SurveyTransitions ==
  [ DRAFT      |-> {"SUBMITTED"},
    SUBMITTED  |-> {"APPROVED", "REJECTED", "SUPERSEDED"},
    APPROVED   |-> {"SUPERSEDED"},
    REJECTED   |-> {"SUPERSEDED", "DRAFT"},
    SUPERSEDED |-> {} ]

SurveyStatuses == DOMAIN SurveyTransitions

\* ALLOWED_ESTIMATE_TRANSITIONS of estimate-state.service.ts.
EstimateTransitions ==
  [ DRAFT            |-> {"PENDING_APPROVAL"},
    PENDING_APPROVAL |-> {"APPROVED", "REJECTED", "SUPERSEDED", "REVISED"},
    APPROVED         |-> {"SUPERSEDED", "REVISED"},
    REJECTED         |-> {"SUPERSEDED", "REVISED"},
    REVISED          |-> {"SUPERSEDED"},
    SUPERSEDED       |-> {} ]

EstimateStatuses == DOMAIN EstimateTransitions

\* ALLOWED_PAYMENT_TRANSITIONS of payment-state.service.ts.
PaymentTransitions ==
  [ PENDING    |-> {"PROCESSING", "SUCCESS", "FAILED"},
    PROCESSING |-> {"SUCCESS", "FAILED"},
    SUCCESS    |-> {"REFUNDED"},
    FAILED     |-> {"PENDING"},
    REFUNDED   |-> {} ]

PaymentStatuses == DOMAIN PaymentTransitions

\* ALLOWED_INVOICE_TRANSITIONS of invoice-state.service.ts.
InvoiceTransitions ==
  [ DRAFT     |-> {"ISSUED", "CANCELLED"},
    ISSUED    |-> {"PAID", "CANCELLED"},
    PAID      |-> {},
    CANCELLED |-> {} ]

InvoiceStatuses == DOMAIN InvoiceTransitions

=============================================================================
