------------------------------ MODULE Invoices ------------------------------
(***************************************************************************)
(* InvoicesService, InvoiceStateService and the job that renders documents *)
(* composed with the payments they follow.                                 *)
(*                                                                         *)
(* A settled payment is announced after its transaction, in memory, and    *)
(* the listener generates the invoice.  A payment has at most one invoice, *)
(* by the unique column paymentId.  The document of an invoice is rendered *)
(* from what was read, stored, and only then linked to the row.            *)
(*                                                                         *)
(* Amounts are those of the payment, and what a document says is left out. *)
(* The invoice number is unique: a collision is a failure.                 *)
(***************************************************************************)
EXTENDS Payments

CONSTANT InvoiceCalls   \* invocations of invoice handlers in flight at once

VARIABLES
  announced,      \* payments whose PAYMENT_SUCCESS awaits its listener
  invoices,       \* the invoice of each payment
  invoiceCalls,   \* what each invocation has read and is about to do
  duplicated      \* auxiliary: a payment was made beside a live one

invoiceVars == <<announced, invoices, invoiceCalls, duplicated>>
billingVars == <<status, vendor, version, held, payments, captured, calls,
                 announced, invoices, invoiceCalls, duplicated>>

InvoiceRows ==
  [ status : InvoiceStatuses \cup {"NONE"},
    pdf    : BOOLEAN ]                          \* is a document linked

NoInvoice == [ status |-> "NONE", pdf |-> FALSE ]

InvoiceCallStates ==
  [ op      : {"none", "generate", "render", "cancel"},
    payment : Payments \cup {NoPayment},
    from    : InvoiceStatuses ]

NoInvoiceCall == [ op |-> "none", payment |-> NoPayment, from |-> "DRAFT" ]

\* One type invariant for the payments and the invoices.
BillingTypeOK ==
  /\ TypeOK
  /\ announced \in SUBSET Payments
  /\ invoices \in [Payments -> InvoiceRows]
  /\ invoiceCalls \in [InvoiceCalls -> InvoiceCallStates]
  /\ duplicated \in BOOLEAN

BillingInit ==
  /\ Init
  /\ announced = {}
  /\ invoices = [p \in Payments |-> NoInvoice]
  /\ invoiceCalls = [i \in InvoiceCalls |-> NoInvoiceCall]
  /\ duplicated = FALSE

Invoiced(p) == invoices[p].status # "NONE"

-----------------------------------------------------------------------------
\* Verification and reconciliation announce what they settled, unless the
\* process stops first.
Settles(p) == payments[p].status # "SUCCESS" /\ payments'[p].status = "SUCCESS"

\* An initiation creates a payment although its check would no longer pass.
Duplicates == ~NoLivePayment /\ \E p \in Payments : ~Exists(p) /\ Exists(p)'

PaymentStep ==
  /\ Next
  /\ \/ UNCHANGED announced
     \/ announced' = announced \cup { p \in Payments : Settles(p) }
  /\ duplicated' = (duplicated \/ Duplicates)
  /\ UNCHANGED <<invoices, invoiceCalls>>

-----------------------------------------------------------------------------
Take(i, op, p, from) ==
  /\ invoiceCalls[i].op = "none"
  /\ invoiceCalls' = [invoiceCalls EXCEPT ![i] =
                        [ op |-> op, payment |-> p, from |-> from ]]

Drop(i) == invoiceCalls' = [invoiceCalls EXCEPT ![i] = NoInvoiceCall]

\* generateInvoiceForPayment needs a payment that has been made ...
AnyPayment(p) == Exists(p)
PaymentMade(p) == payments[p].status = "SUCCESS"

\* ... and returns an invoice that is there, whatever its status.  The listener
\* calls it, and administrators do.
ReadForGenerate(i, p) ==
  /\ ~Invoiced(p)
  /\ PaymentMade(p)
  /\ Take(i, "generate", p, "DRAFT")
  /\ announced' \in {announced, announced \ {p}}
  /\ UNCHANGED <<vars, invoices>>

\* The listener finds an invoice, or is cut off; it logs, and that is all.
ForgetAnnouncement(p) ==
  /\ p \in announced
  /\ announced' = announced \ {p}
  /\ UNCHANGED <<vars, invoices, invoiceCalls>>

\* The transaction: a second invoice of a payment violates the unique column.
IssuedAgain(p) == TRUE
PaymentIdUnique(p) == ~Invoiced(p)

\* Then the document is rendered from the new row.
CommitGenerate(i) ==
  LET p == invoiceCalls[i].payment
  IN /\ invoiceCalls[i].op = "generate"
     /\ PaymentIdUnique(p)
     /\ invoices' = [invoices EXCEPT ![p].status = "ISSUED"]
     /\ invoiceCalls' = [invoiceCalls EXCEPT ![i] =
                           [ op |-> "render", payment |-> p, from |-> "DRAFT" ]]
     /\ UNCHANGED <<vars, announced>>

\* regeneratePdfAdmin renders any invoice again ...
ReadForRegenerate(i, p) ==
  /\ Invoiced(p)
  /\ Take(i, "render", p, "DRAFT")
  /\ UNCHANGED <<vars, announced, invoices>>

\* ... and the job one that has no document yet, so that it may be repeated.
ReadForRender(i, p) == ~invoices[p].pdf /\ ReadForRegenerate(i, p)

\* The document has been stored; its URL is written to the row.
LinkPdf(i) ==
  /\ invoiceCalls[i].op = "render"
  /\ invoices' = [invoices EXCEPT ![invoiceCalls[i].payment].pdf = TRUE]
  /\ Drop(i)
  /\ UNCHANGED <<vars, announced>>

\* cancelInvoiceAdmin ...
ReadForCancel(i, p) ==
  /\ Invoiced(p)
  /\ invoices[p].status # "CANCELLED"
  /\ Take(i, "cancel", p, invoices[p].status)
  /\ UNCHANGED <<vars, announced, invoices>>

\* ... and InvoiceStateService.transitionStatus, which updates by id alone.
CommitCancel(i) ==
  /\ invoiceCalls[i].op = "cancel"
  /\ "CANCELLED" \in InvoiceTransitions[invoiceCalls[i].from]
  /\ invoices' = [invoices EXCEPT ![invoiceCalls[i].payment].status = "CANCELLED"]
  /\ Drop(i)
  /\ UNCHANGED <<vars, announced>>

\* An invocation ends without writing, or without storing the document.
AbortInvoice(i) ==
  /\ invoiceCalls[i].op # "none"
  /\ Drop(i)
  /\ UNCHANGED <<vars, announced, invoices>>

InvoiceStep ==
  \/ \E i \in InvoiceCalls :
       \/ CommitGenerate(i) \/ LinkPdf(i) \/ CommitCancel(i) \/ AbortInvoice(i)
       \/ \E p \in Payments :
            \/ ReadForGenerate(i, p)   \/ ReadForRender(i, p)
            \/ ReadForRegenerate(i, p) \/ ReadForCancel(i, p)
  \/ \E p \in Payments : ForgetAnnouncement(p)

BillingNext == PaymentStep \/ (InvoiceStep /\ UNCHANGED duplicated)

BillingSpec == BillingInit /\ [][BillingNext]_billingVars

-----------------------------------------------------------------------------
\* What is invoiced has been paid: an invoice goes with a payment that has been
\* made, however late it is generated and whatever reports of the gateway are
\* still under way.
InvoicesRestOnPayments ==
  \A p \in Payments :
    Invoiced(p) \/ p \in announced => payments[p].status = "SUCCESS"

\* A request is paid twice only when two payments were created beside each other:
\* one that failed, and was replaced, is not settled after all by a verification
\* or a reconciliation that was decided before it failed.
PaidTwiceOnlyByRacing ==
  \A p, q \in Payments :
    p # q /\ payments[p].status = "SUCCESS" /\ payments[q].status = "SUCCESS"
      => duplicated

\* An invoice moves along its table though its updates check no version, and
\* starts as issued: one that was cancelled is not issued again by a generation
\* that had found none.
InvoiceFollowsTable ==
  [][ \A p \in Payments :
        invoices'[p].status # invoices[p].status
          => IF Invoiced(p)
             THEN invoices'[p].status \in InvoiceTransitions[invoices[p].status]
             ELSE invoices'[p].status = "ISSUED" ]_billingVars

=============================================================================
