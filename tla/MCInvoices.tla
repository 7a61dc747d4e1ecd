----------------------------- MODULE MCInvoices -----------------------------
EXTENDS Invoices, TLC

\* Payments and invocations are interchangeable.
Symmetry ==
  Permutations(Payments) \cup Permutations(Calls) \cup Permutations(InvoiceCalls)

\* The request is worked off, and cancelled or archived behind a payment.
\* Repeated assignments, which only count its version up before a payment may
\* complete it, are left out.
WorksOrEnds ==
  { <<"CREATED", "ASSIGNED">>, <<"ASSIGNED", "IN_PROGRESS">>,
    <<"IN_PROGRESS", "WORK_COMPLETED">>, <<"WORK_COMPLETED", "CANCELLED">>,
    <<"COMPLETED", "ARCHIVED">> }
=============================================================================
