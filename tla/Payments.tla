------------------------------ MODULE Payments ------------------------------
(***************************************************************************)
(* PaymentsService and PaymentStateService: the payments of one service    *)
(* request, the gateway's orders behind them, and the request they close.  *)
(*                                                                         *)
(* A payment moves by WHERE id AND version, and a settlement completes the *)
(* request in the same transaction.  Handlers are split as in              *)
(* ServiceRequests, and the transaction as in WorkOrders.  The gateway is  *)
(* external: it captures the money of an order and from then on reports    *)
(* it, to the customer who asks for verification and to the webhook, again *)
(* until the webhook answers 200.                                          *)
(*                                                                         *)
(* Amounts are left out, and so is the approved estimate an initiation     *)
(* needs: they decide only whether a handler is refused (Abort).           *)
(***************************************************************************)
EXTENDS RequestRow

CONSTANTS
  Payments,           \* bound: payments ever created for the request
  NoPayment,          \* an initiation, which has no payment yet
  Calls,              \* handler invocations that may be in flight at once
  MaxAttempts,        \* maxAttempts of initiatePaymentCustomer
  MaxPaymentVersion,  \* bound: a payment's version stops here
  OutsideSteps        \* bound: how other handlers change the status of the request

ASSUME PaymentsAssumption == NoPayment \notin Payments
ASSUME MaxAttemptsAssumption == MaxAttempts \in Nat \ {0}
ASSUME MaxPaymentVersionAssumption == MaxPaymentVersion \in Nat \ {0}

VARIABLES
  payments,     \* the payments rows of the request
  captured,     \* the payments whose order the gateway holds the money of
  calls         \* what each invocation has read and is about to do

paymentVars == <<payments, captured, calls>>
vars == <<status, vendor, version, held, payments, captured, calls>>

PaymentRows ==
  [ status : PaymentStatuses \cup {"NONE"}, version : 0..MaxPaymentVersion ]

Unused == [ status |-> "NONE", version |-> 0 ]

CallStates ==
  [ op      : {"none", "initiate", "transition", "sync", "webhook"},
    payment : Payments \cup {NoPayment},
    from    : PaymentStatuses \cup RequestStatuses,
    to      : PaymentStatuses,
    count   : 0..MaxPaymentVersion \cup 0..MaxAttempts \cup 0..MaxVersion ]
              \* the version it read, or the attempt an initiation is at;
              \* "from" and "count" are the request's in a "sync"

NoCall == [ op |-> "none", payment |-> NoPayment, from |-> "PENDING",
            to |-> "PENDING", count |-> 0 ]

\* One type invariant: the row, the payments and what every invocation holds.
TypeOK ==
  /\ RowTypeOK
  /\ payments \in [Payments -> PaymentRows]
  /\ captured \in SUBSET Payments
  /\ calls \in [Calls -> CallStates]

Init ==
  /\ RowInit
  /\ payments = [p \in Payments |-> Unused]
  /\ captured = {}
  /\ calls = [c \in Calls |-> NoCall]

Exists(p) == payments[p].status # "NONE"

-----------------------------------------------------------------------------
Hold(c, op, p, to, count) ==
  /\ calls[c].op = "none"
  /\ calls' = [calls EXCEPT ![c] =
                 [ op |-> op, payment |-> p,
                   from |-> IF p = NoPayment THEN "PENDING"
                            ELSE payments[p].status,
                   to |-> to, count |-> count ]]
  /\ UNCHANGED <<row, payments, captured>>

Finish(c) == calls' = [calls EXCEPT ![c] = NoCall]

\* initiatePaymentCustomer goes on only when no payment of the request is
\* pending (that one is returned) or successful (nothing is left to pay).
NoLivePayment == \A p \in Payments : payments[p].status \notin {"PENDING", "SUCCESS"}

ReadForInitiate(c) ==
  /\ NoLivePayment
  /\ Hold(c, "initiate", NoPayment, "PENDING", 1)

\* ... then up to MaxAttempts times: an order at the gateway and the payment.
\* An error after the commit is one too, and is tried again.
CommitInitiate(c) ==
  /\ calls[c].op = "initiate"
  /\ \E p \in Payments :
       /\ ~Exists(p)
       /\ payments' = [payments EXCEPT ![p] =
                         [ status |-> "PENDING", version |-> 1 ]]
  /\ \/ Finish(c)
     \/ /\ calls[c].count < MaxAttempts
        /\ calls' = [calls EXCEPT ![c] =
                       [ op |-> "initiate", payment |-> NoPayment,
                         from |-> "PENDING", to |-> "PENDING",
                         count |-> @.count + 1 ]]
  /\ UNCHANGED <<row, captured>>

\* The gateway takes the customer's money for an order.
Capture(p) ==
  /\ Exists(p)
  /\ p \notin captured
  /\ captured' = captured \cup {p}
  /\ UNCHANGED <<row, payments, calls>>

\* verifyPaymentCustomer: the gateway signs what it captured; any other
\* signature flags the payment.
ReadForVerify(c, p) ==
  /\ Exists(p)
  /\ payments[p].status # "SUCCESS"
  /\ \/ p \in captured /\ Hold(c, "transition", p, "SUCCESS", payments[p].version)
     \/ Hold(c, "transition", p, "FAILED", payments[p].version)

\* reconcilePaymentAdmin checks no status but what the table says.
ReadForReconcile(c, p) ==
  /\ Exists(p)
  /\ Hold(c, "transition", p, "SUCCESS", payments[p].version)

\* The WHERE clause of the payment's UPDATE, besides the id.
PaymentVersionIgnored(p, expected) == TRUE
PaymentVersionMatches(p, expected) == payments[p].version = expected

\* A transaction that has updated a payment holds its row until it ends.
Locked(p) == \E c \in Calls : calls[c].op = "sync" /\ calls[c].payment = p

\* PaymentStateService.transitionStatus, up to its read of the request: the
\* table and the payment's UPDATE, which nobody sees before the commit.
UpdatePayment(c) ==
  LET p == calls[c].payment
  IN /\ calls[c].op = "transition"
     /\ calls[c].to \in PaymentTransitions[calls[c].from]
     /\ PaymentVersionMatches(p, calls[c].count)
     /\ calls[c].count < MaxPaymentVersion
     /\ ~Locked(p)
     /\ calls' = [calls EXCEPT ![c] =
                    [ op |-> "sync", payment |-> p, from |-> status,
                      to |-> calls[c].to, count |-> version ]]
     /\ UNCHANGED <<row, payments, captured>>

\* A settlement completes the request, through its own transition, unless it was
\* read completed: then nothing keeps it so until the payment commits.
RequestLeftBehind(c) == UNCHANGED row
SyncRequest(c) ==
  IF calls[c].to = "SUCCESS" /\ calls[c].from # "COMPLETED"
    THEN VersionedWrite(calls[c].from, "COMPLETED", calls[c].count, Keep)
    ELSE UNCHANGED row

\* ... the rest of it and the commit.
CommitTransition(c) ==
  /\ calls[c].op = "sync"
  /\ payments' = [payments EXCEPT ![calls[c].payment] =
                    [ status |-> calls[c].to, version |-> @.version + 1 ]]
  /\ SyncRequest(c)
  /\ Finish(c)
  /\ UNCHANGED captured

\* handleRazorpayWebhook: the order's payment, not yet settled, and whether the
\* gateway reports a capture or a failure.
ReadForWebhook(c, p) ==
  /\ Exists(p)
  /\ payments[p].status \notin {"SUCCESS", "REFUNDED"}
  /\ Hold(c, "webhook", p, IF p \in captured THEN "SUCCESS" ELSE "FAILED",
          payments[p].version)

\* ... then the transaction.  It always gives a reason, so transitionStatus
\* writes a comment by the user "SYSTEM_WEBHOOK"; the column is a UUID that
\* refers to a user, the insert fails, and the transaction rolls back.
CommitWebhook(c) ==
  /\ calls[c].op = "webhook"
  /\ Finish(c)
  /\ UNCHANGED <<row, payments, captured>>

\* An invocation ends without writing: a check or transitionStatus threw, the
\* gateway or the database failed, the process stopped.
Abort(c) ==
  /\ calls[c].op # "none"
  /\ Finish(c)
  /\ UNCHANGED <<row, payments, captured>>

\* The rest of the backend writes the request.
Outside ==
  /\ RowNext
  /\ <<status, status'>> \in OutsideSteps
  /\ UNCHANGED paymentVars

Next ==
  \/ \E c \in Calls :
       \/ ReadForInitiate(c) \/ CommitInitiate(c)
       \/ UpdatePayment(c) \/ CommitTransition(c)
       \/ CommitWebhook(c) \/ Abort(c)
       \/ \E p \in Payments :
            ReadForVerify(c, p) \/ ReadForReconcile(c, p) \/ ReadForWebhook(c, p)
  \/ \E p \in Payments : Capture(p)
  \/ Outside

Spec == Init /\ [][Next]_vars

\* Every invocation ends.  The gateway repeats a webhook until it is answered
\* with 200, and time and again the backend gets as far as the transaction.
WebhookFairness ==
  /\ \A c \in Calls : WF_vars(UpdatePayment(c) \/ CommitTransition(c) \/ Abort(c))
  /\ \A p \in Payments :
       /\ SF_vars(\E c \in Calls : ReadForWebhook(c, p))
       /\ SF_vars(\E c \in Calls : calls[c].payment = p /\ CommitWebhook(c))

FairSpec == Spec /\ WebhookFairness

-----------------------------------------------------------------------------
\* A payment moves along its table from the status it really has, and the
\* version counts its moves, whoever verifies, flags and reconciles it at once:
\* a settled payment is never flagged as failed by a late answer.
PaymentFollowsTable ==
  [][ \A p \in Payments :
        Exists(p) /\ payments'[p] # payments[p]
          => /\ payments'[p].status \in PaymentTransitions[payments[p].status]
             /\ payments'[p].version = payments[p].version + 1 ]_vars

\* A settlement and the completion of its request are one step, and never from
\* a status that forbids completion: not for a cancelled request, not before
\* the work is done.  The exceptions are the code's: a document has overwritten
\* the status at this version, or the request had been read as completed, was not
\* written therefore, and has moved on (to the archive, unless a document has
\* overwritten the status) before the payment committed.
MovedOnSinceRead(p) ==
  \E c \in Calls : /\ calls[c].op = "sync" /\ calls[c].payment = p
                   /\ calls[c].from = "COMPLETED"
                   /\ calls[c].count < version

SettlementCompletesRequest ==
  [][ held = {status}
        => \A p \in Payments :
             payments[p].status # "SUCCESS" /\ payments'[p].status = "SUCCESS"
               => \/ /\ status' = "COMPLETED"
                     /\ status \in {"WORK_COMPLETED", "QUALITY_CHECK",
                                    "FINAL_PAYMENT_PENDING", "COMPLETED"}
                  \/ MovedOnSinceRead(p) ]_vars

\* The webhook settles what the gateway captured: a pending payment does not
\* stay so for ever while its request could be completed.
Settleable(p) ==
  /\ p \in captured
  /\ payments[p].status = "PENDING"
  /\ status = "WORK_COMPLETED"
  /\ version < MaxVersion

CapturedPaymentsSettle == \A p \in Payments : Settleable(p) ~> ~Settleable(p)

=============================================================================
